---- MODULE Spec2Model ----
(***************************************************************************)
(* Model of the GraphQL lexer (package lexer) and parser (package parser). *)
(* Source text is a sequence of bytes (0..255); byte offsets are 0-based   *)
(* as in the Go code, so the byte at offset i is input[i+1].               *)
(***************************************************************************)
EXTENDS Integers, Sequences, FiniteSets, TLC

VARIABLES
    input,        \* Lexer.input, as a sequence of bytes
    ch,           \* Lexer.ch, the current rune (eof = -1)
    cursor,       \* Lexer.cursor: offset, rdOffset, line, column
    savedCursor,  \* Lexer.savedCursor
    tok,          \* token returned by the last NextToken call of the driver
    err,          \* error returned by the last call
    toks,         \* the non-EOF tokens returned so far, in order (history)
    curToken,     \* Parser.curToken
    peekToken,    \* Parser.peekToken
    doc,          \* ParseDocument: doc.Definitions built so far
    pc,           \* position of the driver
    retDoc,       \* ParseDocument: returned *ast.Document
    retErr,       \* ParseDocument / New: returned error
    nlex,         \* history: number of NextToken calls made by the parser
    failedAt,     \* history: nlex when the parser's first error arose, or -1
    entered,      \* history: routine the last parseDefinition call entered
    raw,          \* processBlockStringValue: the argument rawValue
    formatted     \* processBlockStringValue: the returned string

vars == <<input, ch, cursor, savedCursor, tok, err, toks,
          curToken, peekToken, doc, pc, retDoc, retErr, nlex, failedAt, entered,
          raw, formatted>>

\* Call(f, a): the routine f called with the arguments a; it is defined after
\* the routines.
RECURSIVE Call(_, _)

(***************************************************************************)
(* Characters                                                              *)
(***************************************************************************)
eof == -1

RuneError == 65533

RuneSelf == 128

Ch == [nul |-> 0, bs |-> 8, tab |-> 9, lf |-> 10, ff |-> 12, cr |-> 13,
       space |-> 32, bang |-> 33, quote |-> 34, hash |-> 35, dollar |-> 36,
       amp |-> 38, lparen |-> 40, rparen |-> 41, star |-> 42, plus |-> 43,
       comma |-> 44, minus |-> 45, dot |-> 46, slash |-> 47, zero |-> 48,
       one |-> 49, nine |-> 57, colon |-> 58, equals |-> 61, at |-> 64,
       A |-> 65, D |-> 68, E |-> 69, F |-> 70, Z |-> 90, lbrack |-> 91,
       backslash |-> 92, rbrack |-> 93, underscore |-> 95, a |-> 97,
       b |-> 98, e |-> 101, f |-> 102, n |-> 110, r |-> 114, t |-> 116,
       u |-> 117, x |-> 120, z |-> 122, lbrace |-> 123, pipe |-> 124,
       rbrace |-> 125]

isLetter(c) == (Ch.a <= c /\ c <= Ch.z) \/ (Ch.A <= c /\ c <= Ch.Z)

isDigit(c) == Ch.zero <= c /\ c <= Ch.nine

isLineTerminator(c) == c = Ch.lf \/ c = Ch.cr

isNameStart(c) == isLetter(c) \/ c = Ch.underscore

isNameContinue(c) == isLetter(c) \/ isDigit(c) \/ c = Ch.underscore

isExponentIndicator(c) == c = Ch.e \/ c = Ch.E

isSign(c) == c = Ch.plus \/ c = Ch.minus

isWhiteSpace(c) == c = Ch.space \/ c = Ch.tab

(***************************************************************************)
(* utf8.DecodeRuneInString on the bytes of s from offset pos on.           *)
(* Result: [r |-> rune, size |-> bytes consumed].                          *)
(***************************************************************************)
isCont(b) == 128 <= b /\ b <= 191

DecodeRuneInString(s, pos) ==
    LET n  == Len(s) - pos
        s0 == s[pos + 1]
        bad == [r |-> RuneError, size |-> 1]
        sz == IF 194 <= s0 /\ s0 <= 223 THEN 2
              ELSE IF 224 <= s0 /\ s0 <= 239 THEN 3
              ELSE IF 240 <= s0 /\ s0 <= 244 THEN 4
              ELSE 0
        lo == IF s0 = 224 THEN 160 ELSE IF s0 = 240 THEN 144 ELSE 128
        hi == IF s0 = 237 THEN 159 ELSE IF s0 = 244 THEN 143 ELSE 191
    IN  IF n < 1 THEN [r |-> RuneError, size |-> 0]
        ELSE IF s0 < RuneSelf THEN [r |-> s0, size |-> 1]
        ELSE IF sz = 0 THEN bad
        ELSE IF n < sz THEN bad
        ELSE IF s[pos + 2] < lo \/ hi < s[pos + 2] THEN bad
        ELSE IF sz = 2
             THEN [r |-> (s0 % 32) * 64 + (s[pos + 2] % 64), size |-> 2]
        ELSE IF ~isCont(s[pos + 3]) THEN bad
        ELSE IF sz = 3
             THEN [r |-> (s0 % 16) * 4096 + (s[pos + 2] % 64) * 64
                         + (s[pos + 3] % 64), size |-> 3]
        ELSE IF ~isCont(s[pos + 4]) THEN bad
        ELSE [r |-> (s0 % 8) * 262144 + (s[pos + 2] % 64) * 4096
                    + (s[pos + 3] % 64) * 64 + (s[pos + 4] % 64), size |-> 4]

decodeRuneAt(s, pos) ==
    IF Len(s) - pos < 1 THEN [r |-> RuneError, size |-> 0]
    ELSE IF s[pos + 1] < RuneSelf THEN [r |-> s[pos + 1], size |-> 1]
    ELSE DecodeRuneInString(s, pos)

(***************************************************************************)
(* The Lexer object: l = [input, ch, cursor, savedCursor].                 *)
(***************************************************************************)
zeroCursor == [offset |-> 0, rdOffset |-> 0, line |-> 0, column |-> 0]

\* input[a:b] of Go, with 0-based half-open offsets.
Slice(s, a, b) == SubSeq(s, a + 1, b)

\* readChar without the look-ahead for the LF of a CR LF pair
readCharBareCR(l) ==
    LET c0 == l.cursor
        c1 == IF isLineTerminator(l.ch)
              THEN [c0 EXCEPT !.line = @ + 1, !.column = 0]
              ELSE c0
        d  == DecodeRuneInString(l.input, c1.rdOffset)
    IN  IF c1.rdOffset < Len(l.input)
        THEN [l EXCEPT !.ch = d.r,
                       !.cursor = [c1 EXCEPT !.offset = c1.rdOffset,
                                             !.rdOffset = @ + d.size,
                                             !.column = @ + 1]]
        ELSE [l EXCEPT !.ch = eof,
                       !.cursor = [c1 EXCEPT !.offset = Len(l.input),
                                             !.column = @ + 1]]

readChar(l) ==
    LET c0 == l.cursor
        c1 == IF l.ch = Ch.cr
              THEN [c0 EXCEPT !.line = @ + 1, !.column = 0,
                              !.rdOffset =
                                  IF c0.rdOffset < Len(l.input)
                                     /\ l.input[c0.rdOffset + 1] = Ch.lf
                                  THEN @ + 1 ELSE @]
              ELSE IF l.ch = Ch.lf
              THEN [c0 EXCEPT !.line = @ + 1, !.column = 0]
              ELSE c0
        b  == l.input[c1.rdOffset + 1]
        d  == DecodeRuneInString(l.input, c1.rdOffset)
    IN  IF c1.rdOffset < Len(l.input)
        THEN IF b < RuneSelf
             THEN [l EXCEPT !.ch = b,
                            !.cursor = [c1 EXCEPT !.offset = c1.rdOffset,
                                                  !.rdOffset = @ + 1,
                                                  !.column = @ + 1]]
             ELSE [l EXCEPT !.ch = d.r,
                            !.cursor = [c1 EXCEPT !.offset = c1.rdOffset,
                                                  !.rdOffset = @ + d.size,
                                                  !.column = @ + 1]]
        ELSE [l EXCEPT !.ch = eof,
                       !.cursor = [c1 EXCEPT !.offset = Len(l.input),
                                             !.column = @ + 1]]

\* l.readChar() as a call
ReadChar(l) == Call("readChar", <<l>>)

lexerNew(in) ==
    ReadChar([input |-> in, ch |-> 0,
              cursor |-> [zeroCursor EXCEPT !.line = 1],
              savedCursor |-> zeroCursor])

peekChar(l) ==
    IF l.cursor.rdOffset >= Len(l.input) THEN 0
    ELSE decodeRuneAt(l.input, l.cursor.rdOffset).r

RECURSIVE peekPos(_, _, _)
\* the loop of peekCharAt: pos after skipping i runes, or -1 on running out
peekPos(l, pos, i) ==
    IF i = 0 THEN pos
    ELSE IF pos >= Len(l.input) THEN -1
    ELSE peekPos(l, pos + decodeRuneAt(l.input, pos).size, i - 1)

peekCharAt(l, offset) ==
    LET pos == peekPos(l, l.cursor.rdOffset, offset)
    IN  IF pos = -1 \/ pos >= Len(l.input) THEN 0
        ELSE decodeRuneAt(l.input, pos).r

\* saveCurrentCursor that saves nothing
saveCurrentCursorNever(l) == l

saveCurrentCursor(l) == [l EXCEPT !.savedCursor = l.cursor]

getCapturedSequence(l) == Slice(l.input, l.savedCursor.offset, l.cursor.rdOffset)

(***************************************************************************)
(* Errors.  Every error value has the same shape; NoErr is Go's nil.       *)
(***************************************************************************)
NoErr == [kind |-> "nil", Line |-> 0, Column |-> 0, msg |-> "", ch |-> 0,
          lit |-> <<>>]

newLexError(l, m, c, s) ==
    LET cur == IF l.savedCursor = zeroCursor THEN l.cursor ELSE l.savedCursor
    IN  [kind |-> "LexError", Line |-> cur.line, Column |-> cur.column,
         msg |-> m, ch |-> c, lit |-> s]

(***************************************************************************)
(* Tokens (token.Token with the embedded token.Position).                  *)
(***************************************************************************)
zeroToken == [Type |-> "EOF", Literal |-> <<>>, Start |-> 0, End |-> 0,
              Line |-> 0, Column |-> 0]

\* Results of the lexer's read routines: the lexer after the call, the token
\* type and literal they return, and the error.
LexRes(l, typ, lit, e) == [l |-> l, typ |-> typ, lit |-> lit, err |-> e]

skipInsignificantChars(l) ==
    IF isWhiteSpace(l.ch) \/ isLineTerminator(l.ch) \/ l.ch = Ch.comma
    THEN Call("skipInsignificantChars", <<ReadChar(l)>>)
    ELSE l

readNameLoop(l) ==
    IF isNameContinue(l.ch) THEN Call("readNameLoop", <<ReadChar(l)>>) ELSE l

readName(l) ==
    LET start == l.cursor.offset
        l1 == Call("readNameLoop", <<l>>)
    IN  LexRes(l1, "NAME", Slice(l.input, start, l1.cursor.offset), NoErr)

\* for isDigit(l.ch) { l.readChar() }
readDigits(l) == IF isDigit(l.ch) THEN Call("readDigits", <<ReadChar(l)>>) ELSE l

ExpectedDigit == "invalid number, expected digit but got"

\* readNumber's tail where an exponent part leaves the kind as it was
readNumberTailKindKept(l, start) ==
    LET hasFrac == l.ch = Ch.dot
        f1 == ReadChar(l)
        f2 == IF hasFrac THEN Call("readDigits", <<f1>>) ELSE l
        t1 == IF hasFrac THEN "FLOAT" ELSE "INT"
        hasExp == isExponentIndicator(f2.ch)
        e1 == ReadChar(f2)
        e2 == IF isSign(e1.ch) THEN ReadChar(e1) ELSE e1
        e3 == IF hasExp THEN Call("readDigits", <<e2>>) ELSE f2
    IN  IF hasFrac /\ ~isDigit(f1.ch)
        THEN LexRes(f1, "FLOAT", <<>>, newLexError(f1, ExpectedDigit, f1.ch, <<>>))
        ELSE IF hasExp /\ ~isDigit(e2.ch)
        THEN LexRes(e2, "FLOAT", <<>>, newLexError(e2, ExpectedDigit, e2.ch, <<>>))
        ELSE IF e3.ch = Ch.dot \/ isNameStart(e3.ch)
        THEN LexRes(e3, t1, <<>>, newLexError(e3, ExpectedDigit, e3.ch, <<>>))
        ELSE LexRes(e3, t1, Slice(l.input, start, e3.cursor.offset), NoErr)

\* readNumber's tail without the check of the character after the number
readNumberTailUnchecked(l, start) ==
    LET hasFrac == l.ch = Ch.dot
        f1 == ReadChar(l)
        f2 == IF hasFrac THEN Call("readDigits", <<f1>>) ELSE l
        t1 == IF hasFrac THEN "FLOAT" ELSE "INT"
        hasExp == isExponentIndicator(f2.ch)
        e1 == ReadChar(f2)
        e2 == IF isSign(e1.ch) THEN ReadChar(e1) ELSE e1
        e3 == IF hasExp THEN Call("readDigits", <<e2>>) ELSE f2
        t2 == IF hasExp THEN "FLOAT" ELSE t1
    IN  IF hasFrac /\ ~isDigit(f1.ch)
        THEN LexRes(f1, "FLOAT", <<>>, newLexError(f1, ExpectedDigit, f1.ch, <<>>))
        ELSE IF hasExp /\ ~isDigit(e2.ch)
        THEN LexRes(e2, "FLOAT", <<>>, newLexError(e2, ExpectedDigit, e2.ch, <<>>))
        ELSE LexRes(e3, t2, Slice(l.input, start, e3.cursor.offset), NoErr)

\* readNumber, the part after the integer part: l is the lexer there, start
\* the offset of the first character of the number.
readNumberTail(l, start) ==
    LET hasFrac == l.ch = Ch.dot
        f1 == ReadChar(l)
        f2 == IF hasFrac THEN Call("readDigits", <<f1>>) ELSE l
        t1 == IF hasFrac THEN "FLOAT" ELSE "INT"
        hasExp == isExponentIndicator(f2.ch)
        e1 == ReadChar(f2)
        e2 == IF isSign(e1.ch) THEN ReadChar(e1) ELSE e1
        e3 == IF hasExp THEN Call("readDigits", <<e2>>) ELSE f2
        t2 == IF hasExp THEN "FLOAT" ELSE t1
    IN  IF hasFrac /\ ~isDigit(f1.ch)
        THEN LexRes(f1, "FLOAT", <<>>, newLexError(f1, ExpectedDigit, f1.ch, <<>>))
        ELSE IF hasExp /\ ~isDigit(e2.ch)
        THEN LexRes(e2, "FLOAT", <<>>, newLexError(e2, ExpectedDigit, e2.ch, <<>>))
        ELSE IF e3.ch = Ch.dot \/ isNameStart(e3.ch)
        THEN LexRes(e3, t2, <<>>, newLexError(e3, ExpectedDigit, e3.ch, <<>>))
        ELSE LexRes(e3, t2, Slice(l.input, start, e3.cursor.offset), NoErr)

readNumber(l) ==
    LET start == l.cursor.offset
        l1 == IF l.ch = Ch.minus THEN ReadChar(l) ELSE l
        z1 == ReadChar(l1)
    IN  IF l1.ch = Ch.zero
        THEN IF isDigit(z1.ch)
             THEN LexRes(z1, "INT", <<>>,
                         newLexError(z1, "invalid number, unexpected digit after 0:",
                                     z1.ch, <<>>))
             ELSE Call("readNumberTail", <<z1, start>>)
        ELSE IF ~isDigit(l1.ch)
             THEN LexRes(l1, "INT", <<>>, newLexError(l1, ExpectedDigit, l1.ch, <<>>))
             ELSE Call("readNumberTail", <<Call("readDigits", <<l1>>), start>>)

readCommentLoop(l) ==
    IF ~isLineTerminator(l.ch) /\ l.ch # eof
    THEN Call("readCommentLoop", <<ReadChar(l)>>)
    ELSE l

readComment(l) ==
    LET l1 == ReadChar(l)
        start == l1.cursor.offset
        l2 == Call("readCommentLoop", <<l1>>)
    IN  LexRes(l2, "COMMENT", Slice(l.input, start, l2.cursor.offset), NoErr)

(***************************************************************************)
(* String literals.  Literals are byte strings: a rune is appended in its  *)
(* UTF-8 encoding (strings.Builder.WriteRune).                             *)
(***************************************************************************)
\* isUnicodeScalarValue without the lower bound of the first range
isUnicodeScalarValueUnsigned(c) == c <= 55295 \/ (c >= 57344 /\ c <= 1114111)

isUnicodeScalarValue(c) == (c >= 0 /\ c <= 55295) \/ (c >= 57344 /\ c <= 1114111)

isLeadingSurrogate(c) == c >= 55296 /\ c <= 56319

isTrailingSurrogate(c) == c >= 56320 /\ c <= 57343

\* combineSurrogates without the 0x10000 offset of the supplementary planes
combineSurrogatesNoOffset(leading, trailing) ==
    (leading - 55296) * 1024 + (trailing - 56320)

combineSurrogates(leading, trailing) ==
    (leading - 55296) * 1024 + (trailing - 56320) + 65536

hexDigitToInt(c) ==
    IF Ch.zero <= c /\ c <= Ch.nine THEN c - Ch.zero
    ELSE IF Ch.a <= c /\ c <= Ch.f THEN (c - Ch.a) + 10
    ELSE IF Ch.A <= c /\ c <= Ch.F THEN (c - Ch.A) + 10
    ELSE -1

\* (value << 4) | rune(digit) on a Go int32 (rune): bits 24..27 of value
\* become the top four bits, of which the highest is the sign.
ShiftInDigit(value, digit) ==
    LET top == (value \div 16777216) % 16
        rest == (value % 16777216) * 16 + digit
    IN  (IF top >= 8 THEN top - 16 ELSE top) * 268435456 + rest

WriteRune(r0) ==
    LET r == IF r0 < 0 \/ r0 > 1114111 \/ (55296 <= r0 /\ r0 <= 57343)
             THEN RuneError ELSE r0
    IN  IF r < 128 THEN <<r>>
        ELSE IF r < 2048 THEN <<192 + (r \div 64), 128 + (r % 64)>>
        ELSE IF r < 65536
             THEN <<224 + (r \div 4096), 128 + ((r \div 64) % 64), 128 + (r % 64)>>
        ELSE <<240 + (r \div 262144), 128 + ((r \div 4096) % 64),
               128 + ((r \div 64) % 64), 128 + (r % 64)>>

escapeChars(c) ==
    IF c = Ch.quote THEN Ch.quote
    ELSE IF c = Ch.backslash THEN Ch.backslash
    ELSE IF c = Ch.slash THEN Ch.slash
    ELSE IF c = Ch.b THEN Ch.bs
    ELSE IF c = Ch.f THEN Ch.ff
    ELSE IF c = Ch.n THEN Ch.lf
    ELSE IF c = Ch.r THEN Ch.cr
    ELSE IF c = Ch.t THEN Ch.tab
    ELSE -1

\* Results of the escape readers: the lexer after, the rune, the error.
RuneRes(l, r, e) == [l |-> l, r |-> r, err |-> e]

readUnicodeFixedWidthLoop(l, value, i) ==
    IF i >= 4 THEN RuneRes(l, value, NoErr)
    ELSE LET digit == hexDigitToInt(l.ch)
             v1 == ShiftInDigit(value, digit)
         IN  IF digit < 0
             THEN RuneRes(l, RuneError,
                          newLexError(l, "invalid hex digit in Unicode escape sequence",
                                      l.ch, getCapturedSequence(l)))
             ELSE Call("readUnicodeFixedWidthLoop", <<IF i < 3 THEN ReadChar(l) ELSE l, v1, i + 1>>)

readUnicodeFixedWidth(l) == Call("readUnicodeFixedWidthLoop", <<l, 0, 0>>)

readUnicodeFixedWidthOrSurrogate(l) ==
    LET r1 == Call("readUnicodeFixedWidth", <<l>>)
        l2 == ReadChar(r1.l)
        l3 == ReadChar(l2)
        l4 == ReadChar(l3)
        r2 == Call("readUnicodeFixedWidth", <<l4>>)
    IN  IF r1.err # NoErr THEN RuneRes(r1.l, RuneError, r1.err)
        ELSE IF isUnicodeScalarValue(r1.r) THEN r1
        ELSE IF isLeadingSurrogate(r1.r)
        THEN IF l2.ch # Ch.backslash
             THEN RuneRes(l2, RuneError,
                     newLexError(l2, "expected '\\u' for trailing surrogate in Unicode escape sequence",
                                 0, <<>>))
             ELSE IF l3.ch # Ch.u
             THEN RuneRes(l3, RuneError,
                     newLexError(l3, "expected 'u' after '\\' in Unicode escape sequence",
                                 0, <<>>))
             ELSE IF r2.err # NoErr THEN RuneRes(r2.l, RuneError, r2.err)
             ELSE IF isTrailingSurrogate(r2.r)
             THEN RuneRes(r2.l, combineSurrogates(r1.r, r2.r), NoErr)
             ELSE RuneRes(r2.l, RuneError,
                     newLexError(r2.l, "invalid trailing surrogate in Unicode escape sequence",
                                 0, getCapturedSequence(r2.l)))
        ELSE RuneRes(r1.l, RuneError,
                newLexError(r1.l, "invalid Unicode escape sequence", 0,
                            getCapturedSequence(r1.l)))

\* the for loop of readUnicodeVariableWidth; count = -1 in the result marks
\* a return from inside the loop
readUnicodeVariableWidthLoop(l0, value, count) ==
    LET l == ReadChar(l0)
        digit == hexDigitToInt(l.ch)
        v1 == ShiftInDigit(value, digit)
    IN  IF l.ch = Ch.rbrace THEN [l |-> l, r |-> value, err |-> NoErr, count |-> count]
        ELSE IF l.ch = eof
        THEN [l |-> l, r |-> RuneError, count |-> -1,
              err |-> newLexError(l, "unterminated Unicode escape sequence", 0, <<>>)]
        ELSE IF digit < 0
        THEN [l |-> l, r |-> RuneError, count |-> -1,
              err |-> newLexError(l, "invalid hex digit in Unicode escape sequence",
                                  l.ch, getCapturedSequence(l))]
        ELSE IF count + 1 > 8
        THEN [l |-> l, r |-> RuneError, count |-> -1,
              err |-> newLexError(l, "unicode escape sequence is too long", 0,
                                  getCapturedSequence(l))]
        ELSE Call("readUnicodeVariableWidthLoop", <<l, v1, count + 1>>)

readUnicodeVariableWidth(l) ==
    LET r == Call("readUnicodeVariableWidthLoop", <<l, 0, 0>>)
    IN  IF r.err # NoErr THEN RuneRes(r.l, r.r, r.err)
        ELSE IF r.count = 0
        THEN RuneRes(r.l, 0,
                newLexError(r.l, "unicode escape sequence cannot be empty", 0, <<>>))
        ELSE IF ~isUnicodeScalarValue(r.r)
        THEN RuneRes(r.l, r.r,
                newLexError(r.l, "unicode escape sequence is out of range or invalid",
                            0, getCapturedSequence(r.l)))
        ELSE RuneRes(r.l, r.r, NoErr)

readEscapedUnicode(l) ==
    LET l1 == ReadChar(l)
    IN  IF l1.ch = Ch.lbrace THEN Call("readUnicodeVariableWidth", <<l1>>)
        ELSE Call("readUnicodeFixedWidthOrSurrogate", <<l1>>)

\* the for loop of readString with the closing quote's readChar
readStringLoop(l, result) ==
    LET l1 == ReadChar(saveCurrentCursor(l))
        u  == Call("readEscapedUnicode", <<l1>>)
        esc == escapeChars(l1.ch)
    IN  IF l.ch = Ch.quote THEN LexRes(ReadChar(l), "STRING", result, NoErr)
        ELSE IF l.ch = eof \/ isLineTerminator(l.ch)
        THEN LexRes(l, "STRING", <<>>, newLexError(l, "unterminated string", 0, <<>>))
        ELSE IF l.ch < 32
        THEN LexRes(l, "STRING", <<>>,
                    newLexError(l, "invalid character in string literal:", l.ch, <<>>))
        ELSE IF l.ch = Ch.backslash
        THEN IF l1.ch = Ch.u
             THEN IF u.err # NoErr THEN LexRes(u.l, "STRING", <<>>, u.err)
                  ELSE Call("readStringLoop", <<ReadChar(u.l), result \o WriteRune(u.r)>>)
             ELSE IF esc # -1
                  THEN Call("readStringLoop", <<ReadChar(l1), Append(result, esc)>>)
                  ELSE LexRes(l1, "STRING", <<>>,
                              newLexError(l1, "unknown escape sequence", l1.ch, <<>>))
        ELSE Call("readStringLoop", <<ReadChar(l), result \o WriteRune(l.ch)>>)

readString(l) == Call("readStringLoop", <<ReadChar(l), <<>>>>)

(***************************************************************************)
(* Block strings                                                           *)
(***************************************************************************)
RECURSIVE splitLoop(_, _, _, _)
\* the for loop of splitLinesByLineTerminator (i and start are 0-based)
splitLoop(s, i, start, lines) ==
    IF i >= Len(s)
    THEN IF start < Len(s) THEN Append(lines, Slice(s, start, Len(s))) ELSE lines
    ELSE IF s[i + 1] = Ch.lf \/ s[i + 1] = Ch.cr
    THEN LET line == IF i > start THEN Slice(s, start, i) ELSE <<>>
             i1 == IF s[i + 1] = Ch.cr /\ i + 1 < Len(s) /\ s[i + 2] = Ch.lf
                   THEN i + 1 ELSE i
         IN  splitLoop(s, i1 + 1, i1 + 1, Append(lines, line))
    ELSE splitLoop(s, i + 1, start, lines)

splitLinesByLineTerminator(s) == splitLoop(s, 0, 0, <<>>)

RECURSIVE leadingWhitespaceCount(_)
leadingWhitespaceCount(s) ==
    IF s # <<>> /\ isWhiteSpace(Head(s)) THEN 1 + leadingWhitespaceCount(Tail(s))
    ELSE 0

isBlank(s) == \A i \in 1..Len(s) : isWhiteSpace(s[i])

RECURSIVE commonIndentLoop(_, _, _)
\* the first loop of processBlockStringValue, from line index i (1-based) on
commonIndentLoop(lines, i, commonIndent) ==
    IF i > Len(lines) THEN commonIndent
    ELSE LET indent == leadingWhitespaceCount(lines[i])
         IN  commonIndentLoop(lines, i + 1,
                 IF i # 1 /\ indent < Len(lines[i])
                    /\ (commonIndent = -1 \/ indent < commonIndent)
                 THEN indent ELSE commonIndent)

RECURSIVE firstNonBlank(_, _, _)
firstNonBlank(lines, start, end) ==
    IF start < end /\ isBlank(lines[start + 1])
    THEN firstNonBlank(lines, start + 1, end) ELSE start

RECURSIVE lastNonBlank(_, _, _)
lastNonBlank(lines, start, end) ==
    IF end > start /\ isBlank(lines[end]) THEN lastNonBlank(lines, start, end - 1)
    ELSE end

removeLeadingAndTrailingBlankLines(lines) ==
    LET start == firstNonBlank(lines, 0, Len(lines))
        end == lastNonBlank(lines, start, Len(lines))
    IN  Slice(lines, start, end)

RECURSIVE Join(_, _)
\* strings.Join(lines, sep)
Join(lines, sep) ==
    IF lines = <<>> THEN <<>>
    ELSE IF Len(lines) = 1 THEN lines[1]
    ELSE lines[1] \o sep \o Join(Tail(lines), sep)

processBlockStringValue(rawValue) ==
    LET lines == splitLinesByLineTerminator(rawValue)
        commonIndent == commonIndentLoop(lines, 1, -1)
        stripped == [i \in 1..Len(lines) |->
                        IF commonIndent > 0 /\ i > 1 /\ Len(lines[i]) >= commonIndent
                        THEN Slice(lines[i], commonIndent, Len(lines[i]))
                        ELSE lines[i]]
        kept == removeLeadingAndTrailingBlankLines(stripped)
    IN  IF Len(kept) = 0 THEN <<>> ELSE Join(kept, <<Ch.lf>>)

readBlockStringLoop(l, rawValue) ==
    IF l.ch = eof
    THEN LexRes(l, "BLOCK_STRING", <<>>,
                newLexError(l, "unterminated block string", 0, <<>>))
    ELSE IF l.ch = Ch.quote /\ Call("peekChar", <<l>>) = Ch.quote /\ Call("peekCharAt", <<l, 1>>) = Ch.quote
    THEN LexRes(ReadChar(ReadChar(ReadChar(l))), "BLOCK_STRING",
                Call("processBlockStringValue", <<rawValue>>), NoErr)
    ELSE IF l.ch = Ch.backslash /\ Call("peekChar", <<l>>) = Ch.quote
            /\ Call("peekCharAt", <<l, 1>>) = Ch.quote /\ Call("peekCharAt", <<l, 2>>) = Ch.quote
    THEN Call("readBlockStringLoop", <<ReadChar(ReadChar(ReadChar(ReadChar(l)))),
                             rawValue \o <<Ch.quote, Ch.quote, Ch.quote>>>>)
    ELSE Call("readBlockStringLoop", <<ReadChar(l),
             IF l.ch < RuneSelf THEN Append(rawValue, l.ch)
             ELSE rawValue \o WriteRune(l.ch)>>)

readBlockString(l) == Call("readBlockStringLoop", <<ReadChar(ReadChar(ReadChar(l))), <<>>>>)

(***************************************************************************)
(* NextToken.  Result: the lexer after the call, the token and the error   *)
(* (the named results tok and err of the Go function).                     *)
(***************************************************************************)
TokRes(l, t, e) == [l |-> l, tok |-> t, err |-> e]

Punctuator(c) ==
    IF c = Ch.bang THEN "BANG"
    ELSE IF c = Ch.dollar THEN "DOLLAR"
    ELSE IF c = Ch.amp THEN "AMP"
    ELSE IF c = Ch.lparen THEN "LPAREN"
    ELSE IF c = Ch.rparen THEN "RPAREN"
    ELSE IF c = Ch.colon THEN "COLON"
    ELSE IF c = Ch.equals THEN "EQUALS"
    ELSE IF c = Ch.at THEN "AT"
    ELSE IF c = Ch.lbrack THEN "LBRACK"
    ELSE IF c = Ch.rbrack THEN "RBRACK"
    ELSE IF c = Ch.lbrace THEN "LBRACE"
    ELSE IF c = Ch.pipe THEN "PIPE"
    ELSE IF c = Ch.rbrace THEN "RBRACE"
    ELSE ""

\* an end-of-input case that reads on
readEOFReading(l) == LexRes(ReadChar(l), "EOF", <<>>, NoErr)

\* the end of a token taken from the read offset
tokEndAhead(l) == l.cursor.rdOffset

\* case eof: tok.Type = token.EOF
readEOF(l) == LexRes(l, "EOF", <<>>, NoErr)

\* tok.End = l.offset
tokEnd(l) == l.cursor.offset

NextToken(l0) ==
    LET l == [Call("skipInsignificantChars", <<l0>>) EXCEPT !.savedCursor = zeroCursor]
        t0 == [zeroToken EXCEPT !.Start = l.cursor.offset]
        \* tok.End = l.offset; return
        Done(r) == TokRes(r.l, [t0 EXCEPT !.Type = r.typ, !.Literal = r.lit,
                                          !.End = tokEnd(r.l)], NoErr)
        \* return after tok.Type, tok.Literal, err have been assigned
        Failed(r) == TokRes(r.l, [t0 EXCEPT !.Type = r.typ, !.Literal = r.lit], r.err)
        Read(r) == IF r.err # NoErr THEN Failed(r) ELSE Done(r)
        pk == Call("peekChar", <<l>>)
    IN  IF isNameStart(l.ch) THEN Done(Call("readName", <<l>>))
        ELSE IF isDigit(l.ch) \/ l.ch = Ch.minus THEN Read(Call("readNumber", <<l>>))
        ELSE IF Punctuator(l.ch) # ""
        THEN Done(LexRes(ReadChar(l), Punctuator(l.ch), <<>>, NoErr))
        ELSE IF l.ch = Ch.dot
        THEN IF pk = Ch.dot /\ Call("peekCharAt", <<l, 1>>) = Ch.dot
             THEN Done(LexRes(ReadChar(ReadChar(ReadChar(l))), "SPREAD", <<>>, NoErr))
             ELSE IF isDigit(pk)
             THEN TokRes(l, t0, newLexError(l, "invalid number, expected digit before '.'",
                                            0, <<>>))
             ELSE TokRes(l, t0, newLexError(l, "unexpected '.'", 0, <<>>))
        ELSE IF l.ch = Ch.quote
        THEN IF pk = Ch.quote /\ Call("peekCharAt", <<l, 1>>) = Ch.quote
             THEN Read(Call("readBlockString", <<l>>))
             ELSE Read(Call("readString", <<l>>))
        ELSE IF l.ch = Ch.hash THEN Done(Call("readComment", <<l>>))
        ELSE IF l.ch = eof THEN Done(Call("readEOF", <<l>>))
        ELSE TokRes(l, t0, newLexError(l, "unexpected character", l.ch, <<>>))

(***************************************************************************)
(* The parser (package parser).  A Parser is p = [l, curToken, peekToken]  *)
(* with two history fields: nlex counts the NextToken calls made so far,   *)
(* failedAt is the value of nlex when the first error was created (-1: no  *)
(* error yet).  Every parse routine returns [p, val, err]: the parser      *)
(* after the call, the node (Nil for Go's nil) and the error.  A nil slice *)
(* is the empty sequence.  Names and literals are byte strings.            *)
(***************************************************************************)
Str == [schema |-> <<115, 99, 104, 101, 109, 97>>,
       scalar |-> <<115, 99, 97, 108, 97, 114>>,
       type |-> <<116, 121, 112, 101>>,
       interface |-> <<105, 110, 116, 101, 114, 102, 97, 99, 101>>,
       union |-> <<117, 110, 105, 111, 110>>,
       enum |-> <<101, 110, 117, 109>>,
       input |-> <<105, 110, 112, 117, 116>>,
       directive |-> <<100, 105, 114, 101, 99, 116, 105, 118, 101>>,
       query |-> <<113, 117, 101, 114, 121>>,
       mutation |-> <<109, 117, 116, 97, 116, 105, 111, 110>>,
       subscription |-> <<115, 117, 98, 115, 99, 114, 105, 112, 116, 105, 111, 110>>,
       fragment |-> <<102, 114, 97, 103, 109, 101, 110, 116>>,
       extend |-> <<101, 120, 116, 101, 110, 100>>,
       implements |-> <<105, 109, 112, 108, 101, 109, 101, 110, 116, 115>>,
       repeatable |-> <<114, 101, 112, 101, 97, 116, 97, 98, 108, 101>>,
       on |-> <<111, 110>>,
       true |-> <<116, 114, 117, 101>>,
       false |-> <<102, 97, 108, 115, 101>>,
       null |-> <<110, 117, 108, 108>>]

Nil == [kind |-> "nil"]

Ok(p, v) == [p |-> p, val |-> v, err |-> NoErr]

\* return nil, e where e is created here
Fail(p, e) ==
    [p |-> [p EXCEPT !.failedAt = IF @ = -1 THEN p.nlex ELSE @],
     val |-> Nil, err |-> e]

IsErr(r) == r.err # NoErr

\* x, err := p.f(extra...); if err != nil { return nil, err }, after a step
\* whose result is r
Then(r, f, extra) == IF IsErr(r) THEN r ELSE Call(f, <<r.p>> \o extra)

\* return node, nil after the last step, whose result is r
Return(r, node) == IF IsErr(r) THEN r ELSE Ok(r.p, node)

\* fmt.Errorf(format, args...)
Errorf(format, args) ==
    [kind |-> "error", Line |-> 0, Column |-> 0, msg |-> format, ch |-> 0,
     lit |-> args]

isDescription(typ) == typ = "STRING" \/ typ = "BLOCK_STRING"

next(p) ==
    LET r == Call("NextToken", <<p.l>>)
        p1 == [p EXCEPT !.l = r.l, !.curToken = p.peekToken,
                        !.peekToken = r.tok, !.nlex = @ + 1]
    IN  IF r.err # NoErr THEN Fail(p1, r.err) ELSE Ok(p1, Nil)

expect(p, expectedToken) ==
    IF p.curToken.Type # expectedToken
    THEN Errorf("expected %s, got %s", <<expectedToken, p.curToken.Type>>)
    ELSE NoErr

expectOneOf(p, expectedTokens) ==
    IF p.curToken.Type \in expectedTokens THEN NoErr
    ELSE Errorf("expected one of [%s], got %s", <<expectedTokens, p.curToken.Type>>)

\* expectAndAdvance that fetches a token after a mismatch as well
expectAndAdvanceAlways(p, expectedToken) ==
    LET f == Fail(p, Errorf("expected %s, got %s", <<expectedToken, p.curToken.Type>>))
    IN  IF p.curToken.Type # expectedToken
        THEN [f EXCEPT !.p = Call("next", <<f.p>>).p]
        ELSE Call("next", <<p>>)

\* expectAndAdvance that takes the end of the input for any expected token
expectAndAdvanceOrEOF(p, expectedToken) ==
    IF p.curToken.Type # expectedToken /\ p.curToken.Type # "EOF"
    THEN Fail(p, Errorf("expected %s, got %s", <<expectedToken, p.curToken.Type>>))
    ELSE Call("next", <<p>>)

expectAndAdvance(p, expectedToken) ==
    IF p.curToken.Type # expectedToken
    THEN Fail(p, Errorf("expected %s, got %s", <<expectedToken, p.curToken.Type>>))
    ELSE Call("next", <<p>>)

expectLiteralAndAdvance(p, lit) ==
    IF p.curToken.Literal # lit
    THEN Fail(p, Errorf("expected %s, got %s", <<lit, p.curToken.Literal>>))
    ELSE Call("next", <<p>>)

\* val := <node made from the current token>; if err := p.next(); err != nil
\* { return nil, err }; return val, nil
nextAndReturn(p, val) == Return(Call("next", <<p>>), val)

parseName(p) ==
    IF expect(p, "NAME") # NoErr THEN Fail(p, expect(p, "NAME"))
    ELSE nextAndReturn(p, [kind |-> "Name", Position |-> p.curToken.Start,
                           Value |-> p.curToken.Literal])

parseStringValue(p) ==
    LET e == expectOneOf(p, {"STRING", "BLOCK_STRING"})
    IN  IF e # NoErr THEN Fail(p, e)
        ELSE nextAndReturn(p, [kind |-> "StringValue",
                               Position |-> p.curToken.Start,
                               Value |-> p.curToken.Literal,
                               Block |-> p.curToken.Type = "BLOCK_STRING"])

parseDescription(p) == Call("parseStringValue", <<p>>)

\* if isDescription(p.curToken.Type) { desc, err := p.parseDescription() ... }
optDescription(p) ==
    IF isDescription(p.curToken.Type)
    THEN Call("parseDescription", <<p>>)
    ELSE Ok(p, Nil)

parseNamedType(p) ==
    LET n == Call("parseName", <<p>>)
    IN  Return(n, [kind |-> "NamedType", Position |-> p.curToken.Start,
                   Name |-> n.val])

parseVariable(p) ==
    LET a == Call("expectAndAdvance", <<p, "DOLLAR">>)
        n == Then(a, "parseName", <<>>)
    IN  Return(n, [kind |-> "Variable", Position |-> p.curToken.Start,
                   Name |-> n.val])

parseListValue(p) ==
    LET a == Call("expectAndAdvance", <<p, "LBRACK">>)
        xs == Then(a, "parseListValueLoop", << <<>> >>)
        c == Then(xs, "expectAndAdvance", <<"RBRACK">>)
    IN  Return(c, [kind |-> "ListValue", Position |-> p.curToken.Start,
                   Values |-> xs.val])

parseObjectField(p) ==
    LET n == Call("parseName", <<p>>)
        c == Then(n, "expectAndAdvance", <<"COLON">>)
        v == Then(c, "parseValue", <<>>)
    IN  Return(v, [kind |-> "ObjectField", Position |-> p.curToken.Start,
                   Name |-> n.val, Value |-> v.val])

parseObjectValue(p) ==
    LET a == Call("expectAndAdvance", <<p, "LBRACE">>)
        xs == Then(a, "parseObjectValueLoop", << <<>> >>)
        c == Then(xs, "expectAndAdvance", <<"RBRACE">>)
    IN  Return(c, [kind |-> "ObjectValue", Position |-> p.curToken.Start,
                   Fields |-> xs.val])

parseValue(p) ==
    LET typ == p.curToken.Type
        lit == p.curToken.Literal
        pos == p.curToken.Start
    IN  IF typ = "INT"
        THEN nextAndReturn(p, [kind |-> "IntValue", Position |-> pos, Value |-> lit])
        ELSE IF typ = "FLOAT"
        THEN nextAndReturn(p, [kind |-> "FloatValue", Position |-> pos, Value |-> lit])
        ELSE IF typ = "STRING" \/ typ = "BLOCK_STRING"
        THEN Call("parseStringValue", <<p>>)
        ELSE IF typ = "NAME"
        THEN IF lit = Str.true
             THEN nextAndReturn(p, [kind |-> "BooleanValue", Position |-> pos,
                                    Value |-> TRUE])
             ELSE IF lit = Str.false
             THEN nextAndReturn(p, [kind |-> "BooleanValue", Position |-> pos,
                                    Value |-> FALSE])
             ELSE IF lit = Str.null
             THEN nextAndReturn(p, [kind |-> "NullValue", Position |-> pos])
             ELSE nextAndReturn(p, [kind |-> "EnumValue", Position |-> pos,
                                    Value |-> lit])
        ELSE IF typ = "DOLLAR" THEN Call("parseVariable", <<p>>)
        ELSE IF typ = "LBRACK" THEN Call("parseListValue", <<p>>)
        ELSE IF typ = "LBRACE" THEN Call("parseObjectValue", <<p>>)
        ELSE Fail(p, Errorf("unexpected value token: %s", <<typ>>))

\* for p.curToken.Type != token.RBRACK && p.curToken.Type != token.EOF
parseListValueLoop(p, acc) ==
    IF p.curToken.Type # "RBRACK" /\ p.curToken.Type # "EOF"
    THEN LET r == Call("parseValue", <<p>>)
         IN  IF IsErr(r) THEN r
             ELSE Call("parseListValueLoop", <<r.p, Append(acc, r.val)>>)
    ELSE Ok(p, acc)

\* for p.curToken.Type != token.RBRACE && p.curToken.Type != token.EOF
parseObjectValueLoop(p, acc) ==
    IF p.curToken.Type # "RBRACE" /\ p.curToken.Type # "EOF"
    THEN LET r == Call("parseObjectField", <<p>>)
         IN  IF IsErr(r) THEN r
             ELSE Call("parseObjectValueLoop", <<r.p, Append(acc, r.val)>>)
    ELSE Ok(p, acc)

parseArgument(p) ==
    LET n == Call("parseName", <<p>>)
        c == Then(n, "expectAndAdvance", <<"COLON">>)
        v == Then(c, "parseValue", <<>>)
    IN  Return(v, [kind |-> "Argument", Position |-> p.curToken.Start,
                   Name |-> n.val, Value |-> v.val])

\* for p.curToken.Type != token.RPAREN && p.curToken.Type != token.EOF
parseArgumentsLoop(p, acc) ==
    IF p.curToken.Type # "RPAREN" /\ p.curToken.Type # "EOF"
    THEN LET r == Call("parseArgument", <<p>>)
         IN  IF IsErr(r) THEN r
             ELSE Call("parseArgumentsLoop", <<r.p, Append(acc, r.val)>>)
    ELSE Ok(p, acc)

parseArguments(p) ==
    LET a == Call("expectAndAdvance", <<p, "LPAREN">>)
        xs == Then(a, "parseArgumentsLoop", << <<>> >>)
        c == Then(xs, "expectAndAdvance", <<"RPAREN">>)
    IN  Return(c, xs.val)

\* if p.curToken.Type == token.LPAREN { args, err := p.parseArguments() ... }
optArguments(p) ==
    IF p.curToken.Type = "LPAREN"
    THEN Call("parseArguments", <<p>>)
    ELSE Ok(p, <<>>)

parseDirective(p) ==
    LET a == Call("expectAndAdvance", <<p, "AT">>)
        n == Then(a, "parseName", <<>>)
        as == Then(n, "optArguments", <<>>)
    IN  Return(as, [kind |-> "Directive", Position |-> p.curToken.Start,
                    Name |-> n.val, Arguments |-> as.val])

\* for p.curToken.Type == token.AT
parseDirectivesLoop(p, acc) ==
    IF p.curToken.Type = "AT"
    THEN LET r == Call("parseDirective", <<p>>)
         IN  IF IsErr(r) THEN r
             ELSE Call("parseDirectivesLoop", <<r.p, Append(acc, r.val)>>)
    ELSE Ok(p, acc)

parseDirectives(p) == Call("parseDirectivesLoop", <<p, <<>>>>)

\* if p.curToken.Type == token.BANG { typ = &ast.NonNullType{Position:
\* p.curToken.Start, Type: typ}; if err := p.next() ... }; return typ, nil
\* parseType's non-null step taken once more for a second '!'
parseTypeNonNullAgain(p, typ) ==
    LET r == nextAndReturn(p, [kind |-> "NonNullType", Position |-> p.curToken.Start,
                               Type |-> typ])
    IN  IF p.curToken.Type # "BANG" THEN Ok(p, typ)
        ELSE IF IsErr(r) \/ r.p.curToken.Type # "BANG" THEN r
        ELSE nextAndReturn(r.p, [kind |-> "NonNullType",
                                 Position |-> r.p.curToken.Start, Type |-> r.val])

parseTypeNonNull(p, typ) ==
    IF p.curToken.Type = "BANG"
    THEN nextAndReturn(p, [kind |-> "NonNullType", Position |-> p.curToken.Start,
                           Type |-> typ])
    ELSE Ok(p, typ)

\* the branch of parseType for p.curToken.Type == token.LBRACK
parseListType(p) ==
    LET n == Call("next", <<p>>)
        inner == Then(n, "parseType", <<>>)
        c == Then(inner, "expectAndAdvance", <<"RBRACK">>)
    IN  Return(c, [kind |-> "ListType", Position |-> p.curToken.Start,
                   Type |-> inner.val])

parseType(p) ==
    LET typ == IF p.curToken.Type = "LBRACK" THEN Call("parseListType", <<p>>)
               ELSE IF p.curToken.Type = "NAME" THEN Call("parseNamedType", <<p>>)
               ELSE Fail(p, Errorf("unexpected token in type: %s",
                                   <<p.curToken.Type>>))
    IN  IF IsErr(typ) THEN typ ELSE parseTypeNonNull(typ.p, typ.val)

parseFragmentSpread(p) ==
    LET n == Call("parseName", <<p>>)
        ds == Then(n, "parseDirectives", <<>>)
    IN  Return(ds, [kind |-> "FragmentSpread", Position |-> p.curToken.Start,
                    Name |-> n.val, Directives |-> ds.val])

parseInlineFragment(p) ==
    LET a == Call("next", <<p>>)
        nt == Then(a, "parseNamedType", <<>>)
        ds == Then(nt, "parseDirectives", <<>>)
        ss == Then(ds, "parseSelectionSet", <<>>)
    IN  Return(ss, [kind |-> "InlineFragment", Position |-> p.curToken.Start,
                    TypeCondition |-> nt.val, Directives |-> ds.val,
                    SelectionSet |-> ss.val])

parseFragment(p) ==
    LET a == Call("next", <<p>>)
    IN  IF IsErr(a) THEN a
        ELSE IF a.p.curToken.Literal = Str.on THEN Call("parseInlineFragment", <<a.p>>)
        ELSE Call("parseFragmentSpread", <<a.p>>)

\* if p.curToken.Type == token.NAME && p.peekToken.Type == token.COLON
\* { alias, err := p.parseName() ...; if err := p.next() ... }
optAlias(p) ==
    LET alias == Call("parseName", <<p>>)
        colon == Then(alias, "next", <<>>)
    IN  IF p.curToken.Type = "NAME" /\ p.peekToken.Type = "COLON"
        THEN Return(colon, alias.val)
        ELSE Ok(p, Nil)

\* if p.curToken.Type == token.LBRACE { ss, err := p.parseSelectionSet() ... }
optSelectionSet(p) ==
    IF p.curToken.Type = "LBRACE"
    THEN Call("parseSelectionSet", <<p>>)
    ELSE Ok(p, Nil)

parseField(p) ==
    LET al == Call("optAlias", <<p>>)
        n == Then(al, "parseName", <<>>)
        as == Then(n, "optArguments", <<>>)
        ds == Then(as, "parseDirectives", <<>>)
        ss == Then(ds, "optSelectionSet", <<>>)
    IN  Return(ss, [kind |-> "Field", Position |-> p.curToken.Start,
                    Alias |-> al.val, Name |-> n.val, Arguments |-> as.val,
                    Directives |-> ds.val, SelectionSet |-> ss.val])

parseSelection(p) ==
    IF p.curToken.Type = "SPREAD" THEN Call("parseFragment", <<p>>)
    ELSE Call("parseField", <<p>>)

\* for p.curToken.Type != token.RBRACE && p.curToken.Type != token.EOF
parseSelectionSetLoop(p, acc) ==
    IF p.curToken.Type # "RBRACE" /\ p.curToken.Type # "EOF"
    THEN LET r == Call("parseSelection", <<p>>)
         IN  IF IsErr(r) THEN r
             ELSE Call("parseSelectionSetLoop", <<r.p, Append(acc, r.val)>>)
    ELSE Ok(p, acc)

parseSelectionSet(p) ==
    LET a == Call("expectAndAdvance", <<p, "LBRACE">>)
        xs == Then(a, "parseSelectionSetLoop", << <<>> >>)
        c == Then(xs, "expectAndAdvance", <<"RBRACE">>)
    IN  Return(c, [kind |-> "SelectionSet", Position |-> p.curToken.Start,
                   Selections |-> xs.val])

\* if p.curToken.Type == token.EQUALS { if err := p.next() ...;
\* val, err := p.parseValue() ... }
optDefaultValue(p) ==
    IF p.curToken.Type = "EQUALS"
    THEN Then(Call("next", <<p>>), "parseValue", <<>>)
    ELSE Ok(p, Nil)

parseVariableDefinition(p) ==
    LET v == Call("parseVariable", <<p>>)
        c == Then(v, "expectAndAdvance", <<"COLON">>)
        t == Then(c, "parseType", <<>>)
        d == Then(t, "optDefaultValue", <<>>)
        ds == Then(d, "parseDirectives", <<>>)
    IN  Return(ds, [kind |-> "VariableDefinition",
                    Position |-> p.curToken.Start, Variable |-> v.val,
                    Type |-> t.val, DefaultValue |-> d.val,
                    Directives |-> ds.val])

\* for p.curToken.Type != token.RPAREN && p.curToken.Type != token.EOF
parseVariableDefinitionsLoop(p, acc) ==
    IF p.curToken.Type # "RPAREN" /\ p.curToken.Type # "EOF"
    THEN LET r == Call("parseVariableDefinition", <<p>>)
         IN  IF IsErr(r) THEN r
             ELSE Call("parseVariableDefinitionsLoop", <<r.p, Append(acc, r.val)>>)
    ELSE Ok(p, acc)

parseVariableDefinitions(p) ==
    LET a == Call("expectAndAdvance", <<p, "LPAREN">>)
        xs == Then(a, "parseVariableDefinitionsLoop", << <<>> >>)
        c == Then(xs, "expectAndAdvance", <<"RPAREN">>)
    IN  Return(c, xs.val)

parseOperationType(p) ==
    IF expect(p, "NAME") # NoErr THEN Fail(p, expect(p, "NAME"))
    ELSE nextAndReturn(p, p.curToken.Literal)

\* if p.curToken.Type == token.NAME { name, err := p.parseName() ... }
optName(p) ==
    IF p.curToken.Type = "NAME" THEN Call("parseName", <<p>>) ELSE Ok(p, Nil)

\* if p.curToken.Type == token.LPAREN { varDefs, err := p.parseVariableDefinitions() ... }
optVariableDefinitions(p) ==
    IF p.curToken.Type = "LPAREN"
    THEN Call("parseVariableDefinitions", <<p>>)
    ELSE Ok(p, <<>>)

parseOperationDefinition(p) ==
    LET ot == Call("parseOperationType", <<p>>)
        n == Then(ot, "optName", <<>>)
        vd == Then(n, "optVariableDefinitions", <<>>)
        ds == Then(vd, "parseDirectives", <<>>)
        ss == Then(ds, "parseSelectionSet", <<>>)
    IN  Return(ss, [kind |-> "OperationDefinition",
                    Position |-> p.curToken.Start, OperationType |-> ot.val,
                    Name |-> n.val, VariableDefs |-> vd.val,
                    Directives |-> ds.val, SelectionSet |-> ss.val])

parseAnonymousOperationDefinition(p) ==
    LET ss == Call("parseSelectionSet", <<p>>)
    IN  Return(ss, [kind |-> "OperationDefinition", Position |-> 0,
                    OperationType |-> Str.query, Name |-> Nil,
                    VariableDefs |-> <<>>, Directives |-> <<>>,
                    SelectionSet |-> ss.val])

parseTypeCondition(p) ==
    Then(Call("expectLiteralAndAdvance", <<p, Str.on>>), "parseNamedType", <<>>)

parseFragmentDefinition(p) ==
    LET a == Call("expectLiteralAndAdvance", <<p, Str.fragment>>)
        n == Then(a, "parseName", <<>>)
        tc == Then(n, "parseTypeCondition", <<>>)
        ss == Then(tc, "parseSelectionSet", <<>>)
    IN  Return(ss, [kind |-> "FragmentDefinition",
                    Position |-> p.curToken.Start, Name |-> n.val,
                    TypeCondition |-> tc.val, Directives |-> <<>>,
                    SelectionSet |-> ss.val])

parseInputValueDefinition(p) ==
    LET desc == Call("optDescription", <<p>>)
        n == Then(desc, "parseName", <<>>)
        c == Then(n, "expectAndAdvance", <<"COLON">>)
        t == Then(c, "parseType", <<>>)
        d == Then(t, "optDefaultValue", <<>>)
        ds == Then(d, "parseDirectives", <<>>)
    IN  Return(ds, [kind |-> "InputValueDefinition",
                    Position |-> p.curToken.Start, Description |-> desc.val,
                    Name |-> n.val, Type |-> t.val, DefaultValue |-> d.val,
                    Directives |-> ds.val])

\* for p.curToken.Type != closing && p.curToken.Type != token.EOF
\* (the loop of parseArgumentsDefinition and of parseInputFieldsDefinition)
parseInputValueDefinitionsLoop(p, closing, acc) ==
    IF p.curToken.Type # closing /\ p.curToken.Type # "EOF"
    THEN LET r == Call("parseInputValueDefinition", <<p>>)
         IN  IF IsErr(r) THEN r
             ELSE Call("parseInputValueDefinitionsLoop",
                       <<r.p, closing, Append(acc, r.val)>>)
    ELSE Ok(p, acc)

parseArgumentsDefinition(p) ==
    LET a == Call("expectAndAdvance", <<p, "LPAREN">>)
        xs == Then(a, "parseInputValueDefinitionsLoop", <<"RPAREN", <<>>>>)
        c == Then(xs, "expectAndAdvance", <<"RPAREN">>)
    IN  Return(c, xs.val)

parseInputFieldsDefinition(p) ==
    LET a == Call("expectAndAdvance", <<p, "LBRACE">>)
        xs == Then(a, "parseInputValueDefinitionsLoop", <<"RBRACE", <<>>>>)
        c == Then(xs, "expectAndAdvance", <<"RBRACE">>)
    IN  Return(c, xs.val)

\* if p.curToken.Type == token.LPAREN { args, err := p.parseArgumentsDefinition() ... }
optArgumentsDefinition(p) ==
    IF p.curToken.Type = "LPAREN"
    THEN Call("parseArgumentsDefinition", <<p>>)
    ELSE Ok(p, <<>>)

parseFieldDefinition(p) ==
    LET desc == Call("optDescription", <<p>>)
        n == Then(desc, "parseName", <<>>)
        as == Then(n, "optArgumentsDefinition", <<>>)
        c == Then(as, "expectAndAdvance", <<"COLON">>)
        t == Then(c, "parseType", <<>>)
        ds == Then(t, "parseDirectives", <<>>)
    IN  Return(ds, [kind |-> "FieldDefinition", Position |-> p.curToken.Start,
                    Description |-> desc.val, Name |-> n.val,
                    Arguments |-> as.val, Type |-> t.val,
                    Directives |-> ds.val])

\* for p.curToken.Type != token.RBRACE && p.curToken.Type != token.EOF
parseFieldsDefinitionLoop(p, acc) ==
    IF p.curToken.Type # "RBRACE" /\ p.curToken.Type # "EOF"
    THEN LET r == Call("parseFieldDefinition", <<p>>)
         IN  IF IsErr(r) THEN r
             ELSE Call("parseFieldsDefinitionLoop", <<r.p, Append(acc, r.val)>>)
    ELSE Ok(p, acc)

parseFieldsDefinition(p) ==
    LET a == Call("expectAndAdvance", <<p, "LBRACE">>)
        xs == Then(a, "parseFieldsDefinitionLoop", << <<>> >>)
        c == Then(xs, "expectAndAdvance", <<"RBRACE">>)
    IN  Return(c, xs.val)

\* if p.curToken.Type == sep { if err := p.next() ...; continue }; break
\* (the tail of the loop of parseImplementsInterfaces, parseUnionMemberTypes
\* and parseDirectiveLocations)
listContinue(p, loopName, sep, acc) ==
    IF p.curToken.Type = sep
    THEN Then(Call("next", <<p>>), loopName, <<sep, acc>>)
    ELSE Ok(p, acc)

\* for { nt, err := p.parseNamedType() ...; append; ... }
parseNamedTypeList(p, sep, acc) ==
    LET nt == Call("parseNamedType", <<p>>)
    IN  IF IsErr(nt) THEN nt
        ELSE listContinue(nt.p, "parseNamedTypeList", sep, Append(acc, nt.val))

parseImplementsInterfaces(p) ==
    Then(Call("expectLiteralAndAdvance", <<p, Str.implements>>),
         "parseNamedTypeList", <<"AMP", <<>> >>)

parseUnionMemberTypes(p) ==
    Then(Call("expectAndAdvance", <<p, "EQUALS">>),
         "parseNamedTypeList", <<"PIPE", <<>> >>)

\* parseEnumValueName without the test of the literal
parseEnumValueNameAny(p) ==
    IF expect(p, "NAME") # NoErr THEN Fail(p, expect(p, "NAME"))
    ELSE Call("parseName", <<p>>)

parseEnumValueName(p) ==
    IF expect(p, "NAME") # NoErr THEN Fail(p, expect(p, "NAME"))
    ELSE IF p.curToken.Literal \in {Str.true, Str.false, Str.null}
    THEN Fail(p, Errorf("unexpected: %s", <<p.curToken.Literal>>))
    ELSE Call("parseName", <<p>>)

parseEnumValueDefinition(p) ==
    LET desc == Call("optDescription", <<p>>)
        n == Then(desc, "parseEnumValueName", <<>>)
        ds == Then(n, "parseDirectives", <<>>)
    IN  Return(ds, [kind |-> "EnumValueDefinition",
                    Position |-> p.curToken.Start, Description |-> desc.val,
                    Name |-> n.val, Directives |-> ds.val])

\* for p.curToken.Type != token.RBRACE && p.curToken.Type != token.EOF
parseEnumValuesDefinitionLoop(p, acc) ==
    IF p.curToken.Type # "RBRACE" /\ p.curToken.Type # "EOF"
    THEN LET r == Call("parseEnumValueDefinition", <<p>>)
         IN  IF IsErr(r) THEN r
             ELSE Call("parseEnumValuesDefinitionLoop", <<r.p, Append(acc, r.val)>>)
    ELSE Ok(p, acc)

parseEnumValuesDefinition(p) ==
    LET a == Call("expectAndAdvance", <<p, "LBRACE">>)
        xs == Then(a, "parseEnumValuesDefinitionLoop", << <<>> >>)
        c == Then(xs, "expectAndAdvance", <<"RBRACE">>)
    IN  Return(c, xs.val)

\* for { nt, err := p.parseName() ...; append; if p.curToken.Type ==
\* token.PIPE { next; continue }; break }
parseDirectiveLocationsLoop(p, sep, acc) ==
    LET nt == Call("parseName", <<p>>)
    IN  IF IsErr(nt) THEN nt
        ELSE listContinue(nt.p, "parseDirectiveLocationsLoop", sep,
                          Append(acc, nt.val))

parseDirectiveLocations(p) ==
    Call("parseDirectiveLocationsLoop", <<p, "PIPE", <<>> >>)

parseRootOperationTypeDefinition(p) ==
    LET ot == Call("parseOperationType", <<p>>)
        c == Then(ot, "expectAndAdvance", <<"COLON">>)
        nt == Then(c, "parseNamedType", <<>>)
    IN  Return(nt, [kind |-> "RootOperationTypeDefinition",
                    Position |-> p.curToken.Start, OperationType |-> ot.val,
                    Type |-> nt.val])

\* for p.curToken.Type != token.RBRACE && p.curToken.Type != token.EOF
\* (the loop of parseSchemaDefinition and of parseSchemaExtension)
parseRootOperationTypeDefinitionsLoop(p, acc) ==
    IF p.curToken.Type # "RBRACE" /\ p.curToken.Type # "EOF"
    THEN LET r == Call("parseRootOperationTypeDefinition", <<p>>)
         IN  IF IsErr(r) THEN r
             ELSE Call("parseRootOperationTypeDefinitionsLoop", <<r.p, Append(acc, r.val)>>)
    ELSE Ok(p, acc)

parseSchemaDefinition(p) ==
    LET desc == Call("optDescription", <<p>>)
        k == Then(desc, "expectLiteralAndAdvance", <<Str.schema>>)
        ds == Then(k, "parseDirectives", <<>>)
        a == Then(ds, "expectAndAdvance", <<"LBRACE">>)
        rs == Then(a, "parseRootOperationTypeDefinitionsLoop", << <<>> >>)
        c == Then(rs, "expectAndAdvance", <<"RBRACE">>)
    IN  Return(c, [kind |-> "SchemaDefinition", Position |-> p.curToken.Start,
                   Description |-> desc.val, Directives |-> ds.val,
                   RootOperationDefs |-> rs.val])

parseScalarTypeDefinition(p) ==
    LET desc == Call("optDescription", <<p>>)
        k == Then(desc, "expectLiteralAndAdvance", <<Str.scalar>>)
        n == Then(k, "parseName", <<>>)
        ds == Then(n, "parseDirectives", <<>>)
    IN  Return(ds, [kind |-> "ScalarTypeDefinition",
                    Position |-> p.curToken.Start, Description |-> desc.val,
                    Name |-> n.val, Directives |-> ds.val])

\* if p.curToken.Literal == "implements" { ii, err := p.parseImplementsInterfaces() ... }
optImplementsInterfaces(p) ==
    IF p.curToken.Literal = Str.implements
    THEN Call("parseImplementsInterfaces", <<p>>)
    ELSE Ok(p, <<>>)

\* if p.curToken.Type == token.LBRACE { fields, err := p.parseFieldsDefinition() ... }
optFieldsDefinition(p) ==
    IF p.curToken.Type = "LBRACE"
    THEN Call("parseFieldsDefinition", <<p>>)
    ELSE Ok(p, <<>>)

parseObjectTypeDefinition(p) ==
    LET desc == Call("optDescription", <<p>>)
        k == Then(desc, "expectLiteralAndAdvance", <<Str.type>>)
        n == Then(k, "parseName", <<>>)
        ii == Then(n, "optImplementsInterfaces", <<>>)
        ds == Then(ii, "parseDirectives", <<>>)
        fs == Then(ds, "optFieldsDefinition", <<>>)
    IN  Return(fs, [kind |-> "ObjectTypeDefinition",
                    Position |-> p.curToken.Start, Description |-> desc.val,
                    Name |-> n.val, Interfaces |-> ii.val,
                    Directives |-> ds.val, Fields |-> fs.val])

parseInterfaceTypeDefinition(p) ==
    LET desc == Call("optDescription", <<p>>)
        k == Then(desc, "expectLiteralAndAdvance", <<Str.interface>>)
        n == Then(k, "parseName", <<>>)
        ii == Then(n, "optImplementsInterfaces", <<>>)
        ds == Then(ii, "parseDirectives", <<>>)
        fs == Then(ds, "optFieldsDefinition", <<>>)
    IN  Return(fs, [kind |-> "InterfaceTypeDefinition",
                    Position |-> p.curToken.Start, Description |-> desc.val,
                    Name |-> n.val, Interfaces |-> ii.val,
                    Directives |-> ds.val, Fields |-> fs.val])

\* if p.curToken.Type == token.EQUALS { types, err := p.parseUnionMemberTypes() ... }
optUnionMemberTypes(p) ==
    IF p.curToken.Type = "EQUALS"
    THEN Call("parseUnionMemberTypes", <<p>>)
    ELSE Ok(p, <<>>)

parseUnionTypeDefinition(p) ==
    LET desc == Call("optDescription", <<p>>)
        k == Then(desc, "expectLiteralAndAdvance", <<Str.union>>)
        n == Then(k, "parseName", <<>>)
        ds == Then(n, "parseDirectives", <<>>)
        ts == Then(ds, "optUnionMemberTypes", <<>>)
    IN  Return(ts, [kind |-> "UnionTypeDefinition",
                    Position |-> p.curToken.Start, Description |-> desc.val,
                    Name |-> n.val, Directives |-> ds.val, Types |-> ts.val])

\* if p.curToken.Type == token.LBRACE { vals, err := p.parseEnumValuesDefinition() ... }
optEnumValuesDefinition(p) ==
    IF p.curToken.Type = "LBRACE"
    THEN Call("parseEnumValuesDefinition", <<p>>)
    ELSE Ok(p, <<>>)

parseEnumTypeDefinition(p) ==
    LET desc == Call("optDescription", <<p>>)
        k == Then(desc, "expectLiteralAndAdvance", <<Str.enum>>)
        n == Then(k, "parseName", <<>>)
        ds == Then(n, "parseDirectives", <<>>)
        vs == Then(ds, "optEnumValuesDefinition", <<>>)
    IN  Return(vs, [kind |-> "EnumTypeDefinition",
                    Position |-> p.curToken.Start, Description |-> desc.val,
                    Name |-> n.val, Directives |-> ds.val, Values |-> vs.val])

\* if p.curToken.Type == token.LBRACE { fields, err := p.parseInputFieldsDefinition() ... }
optInputFieldsDefinition(p) ==
    IF p.curToken.Type = "LBRACE"
    THEN Call("parseInputFieldsDefinition", <<p>>)
    ELSE Ok(p, <<>>)

parseInputObjectTypeDefinition(p) ==
    LET desc == Call("optDescription", <<p>>)
        k == Then(desc, "expectLiteralAndAdvance", <<Str.input>>)
        n == Then(k, "parseName", <<>>)
        ds == Then(n, "parseDirectives", <<>>)
        fs == Then(ds, "optInputFieldsDefinition", <<>>)
    IN  Return(fs, [kind |-> "InputObjectTypeDefinition",
                    Position |-> p.curToken.Start, Description |-> desc.val,
                    Name |-> n.val, Directives |-> ds.val, Fields |-> fs.val])

\* if p.curToken.Literal == "repeatable" { repeatable = true; p.next() ... }
optRepeatable(p) ==
    IF p.curToken.Literal = Str.repeatable THEN nextAndReturn(p, TRUE)
    ELSE Ok(p, FALSE)

parseDirectiveDefinition(p) ==
    LET desc == Call("optDescription", <<p>>)
        k == Then(desc, "expectLiteralAndAdvance", <<Str.directive>>)
        at == Then(k, "expectAndAdvance", <<"AT">>)
        n == Then(at, "parseName", <<>>)
        as == Then(n, "optArgumentsDefinition", <<>>)
        rep == Then(as, "optRepeatable", <<>>)
        on == Then(rep, "expectLiteralAndAdvance", <<Str.on>>)
        ls == Then(on, "parseDirectiveLocations", <<>>)
    IN  Return(ls, [kind |-> "DirectiveDefinition",
                    Position |-> p.curToken.Start, Description |-> desc.val,
                    Name |-> n.val, Arguments |-> as.val,
                    Repeatable |-> rep.val, Locations |-> ls.val])

\* if <nothing was added> { return nil, fmt.Errorf(...) }; return ext, nil
\* (the tail of the extensions that check for a modification)
\* ReturnUnless without the test
ReturnAlways(r, empty, e, node) == Return(r, node)

ReturnUnless(r, empty, e, node) ==
    IF IsErr(r) THEN r ELSE IF empty THEN Fail(r.p, e) ELSE Ok(r.p, node)

parseInputObjectTypeExtension(p) ==
    LET x == Call("expectLiteralAndAdvance", <<p, Str.extend>>)
        k == Then(x, "expectLiteralAndAdvance", <<Str.input>>)
        n == Then(k, "parseName", <<>>)
        ds == Then(n, "parseDirectives", <<>>)
        fs == Then(ds, "optInputFieldsDefinition", <<>>)
    IN  Return(fs, [kind |-> "InputObjectTypeExtension",
                    Position |-> p.curToken.Start, Name |-> n.val,
                    Directives |-> ds.val, Fields |-> fs.val])

parseEnumTypeExtension(p) ==
    LET x == Call("expectLiteralAndAdvance", <<p, Str.extend>>)
        k == Then(x, "expectLiteralAndAdvance", <<Str.enum>>)
        n == Then(k, "parseName", <<>>)
        ds == Then(n, "parseDirectives", <<>>)
        vs == Then(ds, "optEnumValuesDefinition", <<>>)
    IN  Return(vs, [kind |-> "EnumTypeExtension", Position |-> p.curToken.Start,
                    Name |-> n.val, Directives |-> ds.val, Values |-> vs.val])

\* fmt.Errorf("unexpected: %s", p.curToken.Literal) in the parser of r
Unexpected(r) ==
    IF IsErr(r) THEN NoErr ELSE Errorf("unexpected: %s", <<r.p.curToken.Literal>>)

parseUnionTypeExtension(p) ==
    LET x == Call("expectLiteralAndAdvance", <<p, Str.extend>>)
        k == Then(x, "expectLiteralAndAdvance", <<Str.union>>)
        n == Then(k, "parseName", <<>>)
        ds == Then(n, "parseDirectives", <<>>)
        ts == Then(ds, "optUnionMemberTypes", <<>>)
    IN  ReturnUnless(ts, ds.val = <<>> /\ ts.val = <<>>,
                     Unexpected(ts),
                     [kind |-> "UnionTypeExtension",
                    Position |-> p.curToken.Start, Name |-> n.val,
                    Directives |-> ds.val, Types |-> ts.val])

parseInterfaceTypeExtension(p) ==
    LET x == Call("expectLiteralAndAdvance", <<p, Str.extend>>)
        k == Then(x, "expectLiteralAndAdvance", <<Str.interface>>)
        n == Then(k, "parseName", <<>>)
        ii == Then(n, "optImplementsInterfaces", <<>>)
        ds == Then(ii, "parseDirectives", <<>>)
        fs == Then(ds, "optFieldsDefinition", <<>>)
    IN  ReturnUnless(fs, ii.val = <<>> /\ ds.val = <<>> /\ fs.val = <<>>,
                     Unexpected(fs),
                     [kind |-> "InterfaceTypeExtension",
                    Position |-> p.curToken.Start, Name |-> n.val,
                    Interfaces |-> ii.val, Directives |-> ds.val,
                    Fields |-> fs.val])

\* if p.curToken.Type != token.LBRACE { if err := p.next() ...; for ... {
\* rootOpDef, err := p.parseRootOperationTypeDefinition() ... };
\* if err := p.expectAndAdvance(token.RBRACE) ... }
optRootOperationTypeDefinitions(p) ==
    LET a == Call("next", <<p>>)
        rs == Then(a, "parseRootOperationTypeDefinitionsLoop", << <<>> >>)
        c == Then(rs, "expectAndAdvance", <<"RBRACE">>)
    IN  IF p.curToken.Type # "LBRACE" THEN Return(c, rs.val) ELSE Ok(p, <<>>)

parseSchemaExtension(p) ==
    LET x == Call("expectLiteralAndAdvance", <<p, Str.extend>>)
        k == Then(x, "expectLiteralAndAdvance", <<Str.schema>>)
        ds == Then(k, "parseDirectives", <<>>)
        rs == Then(ds, "optRootOperationTypeDefinitions", <<>>)
    IN  Return(rs, [kind |-> "SchemaExtension", Position |-> p.curToken.Start,
                    Directives |-> ds.val, RootOperationDefs |-> rs.val])

parseScalarTypeExtension(p) ==
    LET x == Call("expectLiteralAndAdvance", <<p, Str.extend>>)
        k == Then(x, "expectLiteralAndAdvance", <<Str.scalar>>)
        n == Then(k, "parseName", <<>>)
        ds == Then(n, "parseDirectives", <<>>)
    IN  ReturnUnless(ds, Len(ds.val) = 0,
                     Errorf("directives required", <<>>),
                     [kind |-> "ScalarTypeExtension",
                    Position |-> p.curToken.Start, Name |-> n.val,
                    Directives |-> ds.val])

parseObjectTypeExtension(p) ==
    LET x == Call("expectLiteralAndAdvance", <<p, Str.extend>>)
        k == Then(x, "expectLiteralAndAdvance", <<Str.type>>)
        n == Then(k, "parseName", <<>>)
        ii == Then(n, "optImplementsInterfaces", <<>>)
        ds == Then(ii, "parseDirectives", <<>>)
        fs == Then(ds, "optFieldsDefinition", <<>>)
    IN  Return(fs, [kind |-> "ObjectTypeExtension",
                    Position |-> p.curToken.Start, Name |-> n.val,
                    Interfaces |-> ii.val, Directives |-> ds.val,
                    Fields |-> fs.val])

\* The routine a literal of parseTypeSystemExtension's switch stands for.
ExtensionRoutine(lit) ==
    CASE lit = Str.schema -> "parseSchemaExtension"
      [] lit = Str.scalar -> "parseScalarTypeExtension"
      [] lit = Str.type -> "parseObjectTypeExtension"
      [] lit = Str.interface -> "parseInterfaceTypeExtension"
      [] lit = Str.union -> "parseUnionTypeExtension"
      [] lit = Str.enum -> "parseEnumTypeExtension"
      [] lit = Str.input -> "parseInputObjectTypeExtension"
      [] OTHER -> ""

parseTypeSystemExtension(p) ==
    IF ExtensionRoutine(p.peekToken.Literal) = ""
    THEN Fail(p, Errorf("unexpected extension: %s", <<p.peekToken.Literal>>))
    ELSE Call(ExtensionRoutine(p.peekToken.Literal), <<p>>)

\* The routine a keyword of parseDefinition's switch stands for ("" if none).
KeywordRoutine(lit) ==
    CASE lit = Str.schema -> "parseSchemaDefinition"
      [] lit = Str.scalar -> "parseScalarTypeDefinition"
      [] lit = Str.type -> "parseObjectTypeDefinition"
      [] lit = Str.interface -> "parseInterfaceTypeDefinition"
      [] lit = Str.union -> "parseUnionTypeDefinition"
      [] lit = Str.enum -> "parseEnumTypeDefinition"
      [] lit = Str.input -> "parseInputObjectTypeDefinition"
      [] lit = Str.directive -> "parseDirectiveDefinition"
      [] lit \in {Str.query, Str.mutation, Str.subscription}
           -> "parseOperationDefinition"
      [] lit = Str.fragment -> "parseFragmentDefinition"
      [] lit = Str.extend -> "parseTypeSystemExtension"
      [] OTHER -> ""

\* The token parseDefinition switches on: the one after a description.
definitionToken(p) ==
    IF isDescription(p.curToken.Type) THEN p.peekToken ELSE p.curToken

\* The routine parseDefinition calls in parser p ("" if it calls none).
definitionRoutine(p) ==
    IF p.peekToken.Type = "LBRACE" THEN "parseAnonymousOperationDefinition"
    ELSE IF definitionToken(p).Type = "NAME"
    THEN KeywordRoutine(definitionToken(p).Literal)
    ELSE ""

parseDefinition(p) ==
    IF definitionRoutine(p) = ""
    THEN Fail(p, Errorf("unexpected keyword %s", <<p.curToken.Literal>>))
    ELSE Call(definitionRoutine(p), <<p>>)

\* fmt.Errorf("failed to initialize parser tokens: %w", err)
initError(r) ==
    [r EXCEPT !.err = Errorf("failed to initialize parser tokens: %w", <<r.err>>)]

\* parser.New(l): p := &Parser{l: l}, then two calls of next
New(l) ==
    LET n1 == Call("next", << [l |-> l, curToken |-> zeroToken,
                              peekToken |-> zeroToken, nlex |-> 0,
                              failedAt |-> -1] >>)
        n2 == Then(n1, "next", <<>>)
    IN  IF IsErr(n2) THEN initError(n2) ELSE n2

(***************************************************************************)
(* Call(f, a) is the call of routine f with the arguments a.  The routines *)
(* of the lexer and of the parser call one another through it.             *)
(***************************************************************************)
Call(f, a) ==
    CASE f = "readChar" -> readChar(a[1])
      [] f = "readNameLoop" -> readNameLoop(a[1])
      [] f = "readDigits" -> readDigits(a[1])
      [] f = "skipInsignificantChars" -> skipInsignificantChars(a[1])
      [] f = "NextToken" -> NextToken(a[1])
      [] f = "readName" -> readName(a[1])
      [] f = "next" -> next(a[1])
      [] f = "expectAndAdvance" -> expectAndAdvance(a[1], a[2])
      [] f = "expectLiteralAndAdvance" -> expectLiteralAndAdvance(a[1], a[2])
      [] f = "parseName" -> parseName(a[1])
      [] f = "peekChar" -> peekChar(a[1])
      [] f = "peekCharAt" -> peekCharAt(a[1], a[2])
      [] f = "readNumberTail" -> readNumberTail(a[1], a[2])
      [] f = "readNumber" -> readNumber(a[1])
      [] f = "readCommentLoop" -> readCommentLoop(a[1])
      [] f = "readComment" -> readComment(a[1])
      [] f = "readUnicodeFixedWidthLoop" -> readUnicodeFixedWidthLoop(a[1], a[2], a[3])
      [] f = "readUnicodeFixedWidth" -> readUnicodeFixedWidth(a[1])
      [] f = "readUnicodeFixedWidthOrSurrogate" -> readUnicodeFixedWidthOrSurrogate(a[1])
      [] f = "readUnicodeVariableWidthLoop" -> readUnicodeVariableWidthLoop(a[1], a[2], a[3])
      [] f = "readUnicodeVariableWidth" -> readUnicodeVariableWidth(a[1])
      [] f = "readEscapedUnicode" -> readEscapedUnicode(a[1])
      [] f = "readStringLoop" -> readStringLoop(a[1], a[2])
      [] f = "readString" -> readString(a[1])
      [] f = "processBlockStringValue" -> processBlockStringValue(a[1])
      [] f = "readBlockStringLoop" -> readBlockStringLoop(a[1], a[2])
      [] f = "readBlockString" -> readBlockString(a[1])
      [] f = "readEOF" -> readEOF(a[1])
      [] f = "parseStringValue" -> parseStringValue(a[1])
      [] f = "parseDescription" -> parseDescription(a[1])
      [] f = "optDescription" -> optDescription(a[1])
      [] f = "parseNamedType" -> parseNamedType(a[1])
      [] f = "parseVariable" -> parseVariable(a[1])
      [] f = "parseListValue" -> parseListValue(a[1])
      [] f = "parseObjectField" -> parseObjectField(a[1])
      [] f = "parseObjectValue" -> parseObjectValue(a[1])
      [] f = "parseValue" -> parseValue(a[1])
      [] f = "parseListValueLoop" -> parseListValueLoop(a[1], a[2])
      [] f = "parseObjectValueLoop" -> parseObjectValueLoop(a[1], a[2])
      [] f = "parseArgument" -> parseArgument(a[1])
      [] f = "parseArgumentsLoop" -> parseArgumentsLoop(a[1], a[2])
      [] f = "parseArguments" -> parseArguments(a[1])
      [] f = "optArguments" -> optArguments(a[1])
      [] f = "parseDirective" -> parseDirective(a[1])
      [] f = "parseDirectivesLoop" -> parseDirectivesLoop(a[1], a[2])
      [] f = "parseDirectives" -> parseDirectives(a[1])
      [] f = "parseListType" -> parseListType(a[1])
      [] f = "parseType" -> parseType(a[1])
      [] f = "parseFragmentSpread" -> parseFragmentSpread(a[1])
      [] f = "parseInlineFragment" -> parseInlineFragment(a[1])
      [] f = "parseFragment" -> parseFragment(a[1])
      [] f = "optAlias" -> optAlias(a[1])
      [] f = "optSelectionSet" -> optSelectionSet(a[1])
      [] f = "parseField" -> parseField(a[1])
      [] f = "parseSelection" -> parseSelection(a[1])
      [] f = "parseSelectionSetLoop" -> parseSelectionSetLoop(a[1], a[2])
      [] f = "parseSelectionSet" -> parseSelectionSet(a[1])
      [] f = "optDefaultValue" -> optDefaultValue(a[1])
      [] f = "parseVariableDefinition" -> parseVariableDefinition(a[1])
      [] f = "parseVariableDefinitionsLoop" -> parseVariableDefinitionsLoop(a[1], a[2])
      [] f = "parseVariableDefinitions" -> parseVariableDefinitions(a[1])
      [] f = "parseOperationType" -> parseOperationType(a[1])
      [] f = "optName" -> optName(a[1])
      [] f = "optVariableDefinitions" -> optVariableDefinitions(a[1])
      [] f = "parseOperationDefinition" -> parseOperationDefinition(a[1])
      [] f = "parseAnonymousOperationDefinition" -> parseAnonymousOperationDefinition(a[1])
      [] f = "parseTypeCondition" -> parseTypeCondition(a[1])
      [] f = "parseFragmentDefinition" -> parseFragmentDefinition(a[1])
      [] f = "parseInputValueDefinition" -> parseInputValueDefinition(a[1])
      [] f = "parseInputValueDefinitionsLoop" -> parseInputValueDefinitionsLoop(a[1], a[2], a[3])
      [] f = "parseArgumentsDefinition" -> parseArgumentsDefinition(a[1])
      [] f = "parseInputFieldsDefinition" -> parseInputFieldsDefinition(a[1])
      [] f = "optArgumentsDefinition" -> optArgumentsDefinition(a[1])
      [] f = "parseFieldDefinition" -> parseFieldDefinition(a[1])
      [] f = "parseFieldsDefinitionLoop" -> parseFieldsDefinitionLoop(a[1], a[2])
      [] f = "parseFieldsDefinition" -> parseFieldsDefinition(a[1])
      [] f = "parseNamedTypeList" -> parseNamedTypeList(a[1], a[2], a[3])
      [] f = "parseImplementsInterfaces" -> parseImplementsInterfaces(a[1])
      [] f = "parseUnionMemberTypes" -> parseUnionMemberTypes(a[1])
      [] f = "parseEnumValueName" -> parseEnumValueName(a[1])
      [] f = "parseEnumValueDefinition" -> parseEnumValueDefinition(a[1])
      [] f = "parseEnumValuesDefinitionLoop" -> parseEnumValuesDefinitionLoop(a[1], a[2])
      [] f = "parseEnumValuesDefinition" -> parseEnumValuesDefinition(a[1])
      [] f = "parseDirectiveLocationsLoop" -> parseDirectiveLocationsLoop(a[1], a[2], a[3])
      [] f = "parseDirectiveLocations" -> parseDirectiveLocations(a[1])
      [] f = "parseRootOperationTypeDefinition" -> parseRootOperationTypeDefinition(a[1])
      [] f = "parseRootOperationTypeDefinitionsLoop" -> parseRootOperationTypeDefinitionsLoop(a[1], a[2])
      [] f = "parseSchemaDefinition" -> parseSchemaDefinition(a[1])
      [] f = "parseScalarTypeDefinition" -> parseScalarTypeDefinition(a[1])
      [] f = "optImplementsInterfaces" -> optImplementsInterfaces(a[1])
      [] f = "optFieldsDefinition" -> optFieldsDefinition(a[1])
      [] f = "parseObjectTypeDefinition" -> parseObjectTypeDefinition(a[1])
      [] f = "parseInterfaceTypeDefinition" -> parseInterfaceTypeDefinition(a[1])
      [] f = "optUnionMemberTypes" -> optUnionMemberTypes(a[1])
      [] f = "parseUnionTypeDefinition" -> parseUnionTypeDefinition(a[1])
      [] f = "optEnumValuesDefinition" -> optEnumValuesDefinition(a[1])
      [] f = "parseEnumTypeDefinition" -> parseEnumTypeDefinition(a[1])
      [] f = "optInputFieldsDefinition" -> optInputFieldsDefinition(a[1])
      [] f = "parseInputObjectTypeDefinition" -> parseInputObjectTypeDefinition(a[1])
      [] f = "optRepeatable" -> optRepeatable(a[1])
      [] f = "parseDirectiveDefinition" -> parseDirectiveDefinition(a[1])
      [] f = "parseInputObjectTypeExtension" -> parseInputObjectTypeExtension(a[1])
      [] f = "parseEnumTypeExtension" -> parseEnumTypeExtension(a[1])
      [] f = "parseUnionTypeExtension" -> parseUnionTypeExtension(a[1])
      [] f = "parseInterfaceTypeExtension" -> parseInterfaceTypeExtension(a[1])
      [] f = "optRootOperationTypeDefinitions" -> optRootOperationTypeDefinitions(a[1])
      [] f = "parseSchemaExtension" -> parseSchemaExtension(a[1])
      [] f = "parseScalarTypeExtension" -> parseScalarTypeExtension(a[1])
      [] f = "parseObjectTypeExtension" -> parseObjectTypeExtension(a[1])
      [] f = "parseTypeSystemExtension" -> parseTypeSystemExtension(a[1])
      [] f = "parseDefinition" -> parseDefinition(a[1])
      [] f = "New" -> New(a[1])

(***************************************************************************)
(* Inputs: concatenations of at most n symbols of an alphabet, a symbol    *)
(* being a short byte string.                                              *)
(***************************************************************************)
RECURSIVE Flatten(_)
Flatten(ss) == IF ss = <<>> THEN <<>> ELSE Head(ss) \o Flatten(Tail(ss))

Texts(alphabet, n) ==
    UNION {{Flatten(f) : f \in [1..k -> alphabet]} : k \in 0..n}

\* U+00E9 in UTF-8, a two-byte code point
EAcute == <<195, 169>>

MaxLexLen == 4

MaxNumLen == 5

MaxPosLen == 5

LexAlphabet ==
    {<<Ch.a>>, <<Ch.one>>, <<Ch.lbrace>>, <<Ch.quote>>, <<Ch.hash>>, <<Ch.lf>>,
     <<Ch.cr>>, <<Ch.space>>, <<Ch.dot, Ch.dot, Ch.dot>>,
     <<Ch.quote, Ch.quote, Ch.quote>>, EAcute, <<Ch.backslash, Ch.n>>}

NumAlphabet ==
    {<<Ch.zero>>, <<Ch.one>>, <<Ch.minus>>, <<Ch.dot>>, <<Ch.e>>, <<Ch.plus>>,
     <<Ch.a>>, <<Ch.lf>>}

PosAlphabet ==
    {<<Ch.lf>>, <<Ch.cr>>, <<Ch.space>>, <<Ch.tab>>, <<Ch.a>>, EAcute}

(***************************************************************************)
(* The state machine                                                       *)
(***************************************************************************)
Lexer == [input |-> input, ch |-> ch, cursor |-> cursor, savedCursor |-> savedCursor]

SetLexer(l) ==
    /\ input' = l.input
    /\ ch' = l.ch
    /\ cursor' = l.cursor
    /\ savedCursor' = l.savedCursor

NoTok == [zeroToken EXCEPT !.Type = "none"]

\* lexer.New(in), nothing else constructed or called yet, with the raw
\* block string value at hand
InitRaw(texts, start, raws) ==
    /\ \E in \in texts :
          LET l == lexerNew(in)
          IN  /\ input = l.input
              /\ ch = l.ch
              /\ cursor = l.cursor
              /\ savedCursor = l.savedCursor
    /\ tok = NoTok
    /\ err = NoErr
    /\ toks = <<>>
    /\ curToken = zeroToken
    /\ peekToken = zeroToken
    /\ doc = <<>>
    /\ pc = start
    /\ retDoc = Nil
    /\ retErr = NoErr
    /\ nlex = 0
    /\ failedAt = -1
    /\ entered = ""
    /\ raw \in raws
    /\ formatted = <<>>

InitWith(texts, start) == InitRaw(texts, start, {<<>>})

parserVars == <<curToken, peekToken, doc, retDoc, retErr, nlex, failedAt, entered>>

blockVars == <<raw, formatted>>

\* A caller of the lexer (the tests, Parser.next) calls NextToken until it
\* returns an error; it may call again after EOF.
CallNextToken ==
    /\ pc = "lex"
    /\ err = NoErr
    /\ LET r == Call("NextToken", <<Lexer>>)
       IN  /\ SetLexer(r.l)
           /\ tok' = r.tok
           /\ err' = r.err
           /\ toks' = IF r.err = NoErr /\ r.tok.Type # "EOF"
                      THEN Append(toks, r.tok) ELSE toks
    /\ UNCHANGED <<pc, parserVars, blockVars>>

\* One readChar call on a lexer that has not reached the end of the input.
CallReadChar ==
    /\ pc = "char"
    /\ ch # eof
    /\ SetLexer(ReadChar(Lexer))
    /\ UNCHANGED <<tok, err, toks, pc, parserVars, blockVars>>

InitLex == InitWith(Texts(LexAlphabet, MaxLexLen), "lex")

InitNum == InitWith(Texts(NumAlphabet, MaxNumLen), "lex")

InitPos == InitWith(Texts(PosAlphabet, MaxPosLen), "char")

NextLex == CallNextToken

NextChar == CallReadChar

\* One processBlockStringValue call; the method reads and writes no field of
\* the lexer.
CallProcessBlockStringValue ==
    /\ pc = "block"
    /\ formatted' = Call("processBlockStringValue", <<raw>>)
    /\ pc' = "returned"
    /\ UNCHANGED <<input, ch, cursor, savedCursor, tok, err, toks, parserVars, raw>>

SpecLex == InitLex /\ [][NextLex]_vars

SpecNum == InitNum /\ [][NextLex]_vars

SpecChar == InitPos /\ [][NextChar]_vars

(***************************************************************************)
(* The parser's state machine: parser.New on a fresh lexer, then           *)
(* ParseDocument, one turn of its loop at a time.                          *)
(***************************************************************************)
Parser == [l |-> Lexer, curToken |-> curToken, peekToken |-> peekToken,
           nlex |-> nlex, failedAt |-> failedAt]

SetParser(p) ==
    /\ SetLexer(p.l)
    /\ curToken' = p.curToken
    /\ peekToken' = p.peekToken
    /\ nlex' = p.nlex
    /\ failedAt' = p.failedAt

\* p, err := parser.New(l)
CallNew ==
    /\ pc = "new"
    /\ LET r == Call("New", <<Lexer>>)
       IN  /\ SetParser(r.p)
           /\ retErr' = r.err
           /\ pc' = IF IsErr(r) THEN "failed" ELSE "parse"
    /\ UNCHANGED <<tok, err, toks, doc, retDoc, entered, blockVars>>

\* ParseDocument, one turn of the loop: def, err := p.parseDefinition(), then
\* return nil, err or append def to doc.Definitions
ParseDocumentStep ==
    /\ pc = "parse"
    /\ curToken.Type # "EOF"
    /\ LET r == Call("parseDefinition", <<Parser>>)
       IN  /\ SetParser(r.p)
           /\ entered' = definitionRoutine(Parser)
           /\ IF IsErr(r)
              THEN /\ retErr' = r.err
                   /\ pc' = "done"
                   /\ doc' = doc
              ELSE /\ retErr' = retErr
                   /\ pc' = pc
                   /\ doc' = Append(doc, r.val)
    /\ UNCHANGED <<tok, err, toks, retDoc, blockVars>>

\* ParseDocument, leaving the loop: return doc, nil
ParseDocumentReturn ==
    /\ pc = "parse"
    /\ curToken.Type = "EOF"
    /\ retDoc' = [kind |-> "Document", Definitions |-> doc]
    /\ pc' = "done"
    /\ UNCHANGED <<input, ch, cursor, savedCursor, tok, err, toks, curToken,
                   peekToken, doc, retErr, nlex, failedAt, entered, blockVars>>

(***************************************************************************)
(* Documents: lexemes, each followed by a space.                           *)
(***************************************************************************)
Spaced(alphabet) == {w \o <<Ch.space>> : w \in alphabet}

MaxQueryLen == 5

MaxFollowLen == 3

\* { } a query and a comment
QueryAlphabet ==
    Spaced({<<Ch.lbrace>>, <<Ch.rbrace>>, <<Ch.a>>, Str.query,
            <<Ch.hash, Ch.a, Ch.lf>>})

\* the keywords of parseDefinition and a name that is none of them
KeywordAlphabet ==
    Spaced({Str.schema, Str.scalar, Str.type, Str.interface, Str.union, Str.enum,
            Str.input, Str.directive, Str.query, Str.mutation, Str.subscription,
            Str.fragment, Str.extend, <<Ch.f, Ch.a>>})

\* an optional description: nothing or "a"
DescriptionAlphabet == {<<>>, <<Ch.quote, Ch.a, Ch.quote, Ch.space>>}

\* what follows the keyword: { } a : and a lone '.', a lexical error
FollowAlphabet ==
    Spaced({<<Ch.lbrace>>, <<Ch.rbrace>>, <<Ch.a>>, <<Ch.colon>>, <<Ch.dot>>})

KeywordDocs ==
    {d \o k \o f : d \in DescriptionAlphabet, k \in KeywordAlphabet,
                   f \in Texts(FollowAlphabet, MaxFollowLen)}

InitParse == InitWith(Texts(QueryAlphabet, MaxQueryLen) \cup KeywordDocs, "new")

NextParse == CallNew \/ ParseDocumentStep \/ ParseDocumentReturn

SpecParse == InitParse /\ [][NextParse]_vars

(***************************************************************************)
(* Claims about the parser                                                 *)
(***************************************************************************)
\* n times the text w
RECURSIVE Repeat(_, _)
Repeat(w, n) == IF n = 0 THEN <<>> ELSE w \o Repeat(w, n - 1)

\* the document { a ... a } with n fields, every lexeme followed by a space
Shorthand(n) ==
    <<Ch.lbrace, Ch.space>> \o Repeat(<<Ch.a, Ch.space>>, n)
        \o <<Ch.rbrace, Ch.space>>

\* the field a at byte offset o, without alias, arguments, directives or
\* selection set
PlainField(o) ==
    [kind |-> "Field", Position |-> o, Alias |-> Nil,
     Name |-> [kind |-> "Name", Position |-> o, Value |-> <<Ch.a>>],
     Arguments |-> <<>>, Directives |-> <<>>, SelectionSet |-> Nil]

(***************************************************************************)
(* C1: parsing the shorthand query { a ... a } succeeds and returns a      *)
(* Document of one OperationDefinition with operation type query, no name, *)
(* no variable definitions and no directives, whose selection set holds    *)
(* the fields in source order.                                             *)
(***************************************************************************)
C1_ShorthandQuery ==
    \A n \in 1..(MaxQueryLen - 2) :
        (input = Shorthand(n) /\ pc \in {"done", "failed"}) =>
            /\ pc = "done"
            /\ retErr = NoErr
            /\ retDoc # Nil
            /\ Len(retDoc.Definitions) = 1
            /\ LET d == retDoc.Definitions[1]
               IN  /\ d.kind = "OperationDefinition"
                   /\ d.OperationType = Str.query
                   /\ d.Name = Nil
                   /\ d.VariableDefs = <<>>
                   /\ d.Directives = <<>>
                   /\ d.SelectionSet.kind = "SelectionSet"
                   /\ d.SelectionSet.Selections = [i \in 1..n |-> PlainField(2 * i)]

(***************************************************************************)
(* C2: every parseDefinition call whose first non-description token is a   *)
(* NAME enters the parse routine of that keyword, whatever token follows   *)
(* the keyword, and enters none and returns an 'unexpected keyword' error  *)
(* when that NAME is not a keyword.                                        *)
(***************************************************************************)
C2_KeywordDispatch ==
    [][(pc = "parse" /\ curToken.Type # "EOF"
        /\ definitionToken(Parser).Type = "NAME") =>
           /\ entered' = KeywordRoutine(definitionToken(Parser).Literal)
           /\ entered' = "" =>
                  (pc' = "done" /\ retErr'.msg = "unexpected keyword %s")]_vars

(***************************************************************************)
(* C3: neither the current nor the look-ahead token of the parser is ever  *)
(* a COMMENT token.                                                        *)
(***************************************************************************)
C3_NoCommentToken == curToken.Type # "COMMENT" /\ peekToken.Type # "COMMENT"

(***************************************************************************)
(* C4: ParseDocument returns either a Document and a nil error or a nil    *)
(* Document and an error, never both and never a Document short of a       *)
(* definition it parsed; no error arises in a ParseDocument that returns   *)
(* a Document, and when it returns an error no token was requested from    *)
(* the lexer after the first error arose.                                  *)
(***************************************************************************)
C4_FailFast ==
    /\ pc # "done" => retDoc = Nil
    /\ pc = "done" =>
          \/ /\ retErr = NoErr
             /\ retDoc = [kind |-> "Document", Definitions |-> doc]
             /\ failedAt = -1
          \/ /\ retErr # NoErr
             /\ retDoc = Nil
             /\ failedAt = nlex

\* ParseDocument returned the error of a sub-parser after it had parsed a
\* definition
C4_Witness ==
    /\ pc = "done"
    /\ retErr.msg = "expected %s, got %s"
    /\ Len(doc) >= 1
    /\ retDoc = Nil
    /\ failedAt = nlex

(***************************************************************************)
(* Reference coordinates of a byte offset o of a text s (valid UTF-8):     *)
(* the line is 1 + the number of line breaks before o, a CR LF pair being  *)
(* one break; the column is 1 + the number of code points between the last *)
(* line terminator before o and o.                                         *)
(***************************************************************************)
IsBreakAt(s, i) == s[i] = Ch.cr \/ (s[i] = Ch.lf /\ (i = 1 \/ s[i - 1] # Ch.cr))

RefLine(s, o) == 1 + Cardinality({i \in 1..o : IsBreakAt(s, i)})

LineStart(s, o) ==
    LET terms == {i \in 1..o : isLineTerminator(s[i])}
    IN  IF terms = {} THEN 0 ELSE CHOOSE i \in terms : \A j \in terms : j <= i

RefColumn(s, o) == 1 + Cardinality({i \in (LineStart(s, o) + 1)..o : ~isCont(s[i])})

(***************************************************************************)
(* C5: for an input without lexical error the token sequence is finite and *)
(* ends with EOF, and EOF is returned again on every later call.  Every    *)
(* call that returns a non-EOF token moves the lexer strictly forward in   *)
(* the input (so at most Len(input) such tokens are returned), an EOF      *)
(* token starts and ends at Len(input), and a call made after an EOF token *)
(* returns the same token and leaves the lexer as it was.                  *)
(***************************************************************************)
C5_EofTotal ==
    [][pc = "lex" =>
         /\ (err' = NoErr /\ tok'.Type # "EOF") =>
                (cursor'.offset > cursor.offset /\ cursor'.offset <= Len(input))
         /\ (err' = NoErr /\ tok'.Type = "EOF") =>
                (tok'.Start = Len(input) /\ tok'.End = Len(input))
         /\ (err = NoErr /\ tok.Type = "EOF") =>
                (tok' = tok /\ err' = NoErr /\ ch' = ch /\ cursor' = cursor
                 /\ savedCursor' = savedCursor /\ toks' = toks)]_vars

\* EOF has been returned after three tokens
C5_Witness == pc = "lex" /\ tok.Type = "EOF" /\ err = NoErr /\ Len(toks) = 3

(***************************************************************************)
(* C6: token spans are well formed and ordered: 0 <= Start <= End <=       *)
(* len(input) for every token, Start < End for every non-EOF token, and    *)
(* End of a token <= Start of the next one.                                *)
(***************************************************************************)
C6_Spans ==
    pc = "lex" =>
        /\ \A i \in 1..Len(toks) :
              /\ 0 <= toks[i].Start
              /\ toks[i].Start < toks[i].End
              /\ toks[i].End <= Len(input)
        /\ \A i \in 1..(Len(toks) - 1) : toks[i].End <= toks[i + 1].Start
        /\ (err = NoErr /\ tok # NoTok) =>
              (0 <= tok.Start /\ tok.Start <= tok.End /\ tok.End <= Len(input))

\* three tokens with a gap between the first two and none between the last
C6_Witness ==
    /\ pc = "lex" /\ Len(toks) = 3
    /\ toks[1].End < toks[2].Start
    /\ toks[2].End = toks[3].Start

(***************************************************************************)
(* C7: every token returned by NextToken carries the 1-based line and the  *)
(* 1-based code-point column of the character at its Start offset.         *)
(***************************************************************************)
C7_TokenLineColumn ==
    (pc = "lex" /\ err = NoErr /\ tok # NoTok) =>
        /\ tok.Line = RefLine(input, tok.Start)
        /\ tok.Column = RefColumn(input, tok.Start)

(***************************************************************************)
(* C8: after the lexer has consumed a prefix of the input, its line is 1 + *)
(* the number of line breaks in the prefix (LF, CR and a CR LF pair one    *)
(* break each, LF CR two) and its column is 1 at the first character after *)
(* a break and grows by 1 per code point.                                  *)
(***************************************************************************)
C8_LineColumn ==
    pc = "char" =>
        /\ cursor.line = RefLine(input, cursor.offset)
        /\ cursor.column = RefColumn(input, cursor.offset)

\* the whole input is consumed; it holds a CR LF pair, its only break, and a
\* two-byte code point and one more character after the pair
C8_Witness ==
    /\ pc = "char" /\ ch = eof
    /\ \E i \in 1..(Len(input) - 1) :
          /\ Len(input) = i + 4
          /\ input[i] = Ch.cr /\ input[i + 1] = Ch.lf
          /\ Slice(input, i + 1, i + 3) = EAcute
    /\ cursor.line = 2
    /\ cursor.column = 3

(***************************************************************************)
(* The number grammar: '-'? IntegerPart FractionalPart? ExponentPart?      *)
(***************************************************************************)
AllDigits(s) == \A i \in 1..Len(s) : isDigit(s[i])

IsIntegerPart(s) ==
    LET d == IF s # <<>> /\ s[1] = Ch.minus THEN Tail(s) ELSE s
    IN  /\ d # <<>>
        /\ AllDigits(d)
        /\ (d[1] = Ch.zero => Len(d) = 1)

IsFractionalPart(s) == Len(s) >= 2 /\ s[1] = Ch.dot /\ AllDigits(Tail(s))

IsExponentPart(s) ==
    /\ Len(s) >= 2
    /\ isExponentIndicator(s[1])
    /\ LET d == IF isSign(s[2]) THEN Tail(Tail(s)) ELSE Tail(s)
       IN  d # <<>> /\ AllDigits(d)

IsNumber(s) ==
    \E i \in 0..Len(s) : \E j \in i..Len(s) :
        /\ IsIntegerPart(Slice(s, 0, i))
        /\ (i = j \/ IsFractionalPart(Slice(s, i, j)))
        /\ (j = Len(s) \/ IsExponentPart(Slice(s, j, Len(s))))

HasFractionOrExponent(s) ==
    \E i \in 1..Len(s) : s[i] = Ch.dot \/ isExponentIndicator(s[i])

\* s is the beginning of some number
IsNumberPrefix(s) == IsNumber(s) \/ IsNumber(s \o <<Ch.zero>>)

(***************************************************************************)
(* C9: an input accepted by the number grammar is returned as one token,   *)
(* INT when it has neither a fractional nor an exponent part and FLOAT     *)
(* otherwise; the literal of every INT or FLOAT token is the source slice  *)
(* input[Start..End] verbatim and is accepted by the grammar.              *)
(***************************************************************************)
C9_NumberKindAndLiteral ==
    pc = "lex" =>
        /\ \A i \in 1..Len(toks) :
              toks[i].Type \in {"INT", "FLOAT"} =>
                  /\ toks[i].Literal = Slice(input, toks[i].Start, toks[i].End)
                  /\ IsNumber(toks[i].Literal)
                  /\ (toks[i].Type = "FLOAT") = HasFractionOrExponent(toks[i].Literal)
        /\ (IsNumber(input) /\ tok # NoTok) =>
              /\ Len(toks) = 1
              /\ toks[1].Type = IF HasFractionOrExponent(input) THEN "FLOAT" ELSE "INT"
              /\ toks[1].Literal = input
              /\ toks[1].Start = 0
              /\ toks[1].End = Len(input)

\* a negative number with a signed exponent and no fraction is returned as FLOAT
C9_Witness ==
    /\ pc = "lex" /\ Len(toks) = 1
    /\ toks[1].Type = "FLOAT"
    /\ toks[1].Literal = <<Ch.minus, Ch.one, Ch.e, Ch.plus, Ch.one>>

(***************************************************************************)
(* C10: when NextToken starts on a number (a digit or '-') and the longest *)
(* beginning of a number there is followed by '.', by a name-start         *)
(* character or by a digit (a digit after a leading 0), or is not itself a *)
(* number, no token is returned: the error is an invalid-number LexError   *)
(* whose line and column are those of the character after that beginning,  *)
(* which is not the first character of the number.                         *)
(***************************************************************************)
NumberPrefixLen(s, start) ==
    LET ns == {n \in 0..(Len(s) - start) : IsNumberPrefix(Slice(s, start, start + n))}
    IN  CHOOSE n \in ns : \A m \in ns : m <= n

C10_InvalidNumberPosition ==
    (pc = "lex" /\ tok # NoTok /\ tok.Start < Len(input)
       /\ (isDigit(input[tok.Start + 1]) \/ input[tok.Start + 1] = Ch.minus)) =>
        LET k == NumberPrefixLen(input, tok.Start)
            off == tok.Start + k
            nextc == IF off < Len(input) THEN input[off + 1] ELSE eof
            bad == \/ ~IsNumber(Slice(input, tok.Start, off))
                   \/ nextc = Ch.dot \/ isNameStart(nextc) \/ isDigit(nextc)
        IN  /\ k >= 1
            /\ bad =>
                  /\ err.kind = "LexError"
                  /\ err.msg \in {ExpectedDigit,
                                  "invalid number, unexpected digit after 0:"}
                  /\ err.ch = nextc
                  /\ err.Line = RefLine(input, off)
                  /\ err.Column = RefColumn(input, off)
                  /\ err.Column # RefColumn(input, tok.Start)
                  /\ \A i \in 1..Len(toks) : toks[i].End <= tok.Start
            /\ ~bad => err = NoErr

\* a number on the second line followed by a letter: the error is at the letter
C10_Witness ==
    /\ pc = "lex" /\ err.kind = "LexError"
    /\ input = <<Ch.lf, Ch.one, Ch.dot, Ch.one, Ch.a>>
    /\ err.Line = 2 /\ err.Column = 4

(***************************************************************************)
(* String inputs: a quoted string holding escape sequences.                *)
(***************************************************************************)
HexDigit(d) == IF d < 10 THEN Ch.zero + d ELSE Ch.A + (d - 10)

Hex4(v) ==
    <<HexDigit(v \div 4096), HexDigit((v \div 256) % 16),
      HexDigit((v \div 16) % 16), HexDigit(v % 16)>>

RECURSIVE HexOf(_)
\* the hexadecimal digits of v without leading zeros
HexOf(v) ==
    IF v < 16 THEN <<HexDigit(v)>> ELSE Append(HexOf(v \div 16), HexDigit(v % 16))

Quoted(body) == <<Ch.quote>> \o body \o <<Ch.quote>>

\* \uXXXX
FixedEscape(v) == <<Ch.backslash, Ch.u>> \o Hex4(v)

\* \u{digits}
BracedEscape(digits) == <<Ch.backslash, Ch.u, Ch.lbrace>> \o digits \o <<Ch.rbrace>>

\* number of leading and of trailing surrogates sampled, spread evenly over
\* 0xD800..0xDBFF and 0xDC00..0xDFFF with both ends of each range included
SurrogateSamples == 12

SampleOffsets == {(1023 * k) \div (SurrogateSamples - 1) : k \in 0..(SurrogateSamples - 1)}

LeadingSamples == {55296 + o : o \in SampleOffsets}

TrailingSamples == {56320 + o : o \in SampleOffsets}

PairText(hi, lo) == Quoted(FixedEscape(hi) \o FixedEscape(lo))

PairTexts == {PairText(hi, lo) : hi \in LeadingSamples, lo \in TrailingSamples}

\* the code point a surrogate pair stands for (UTF-16)
PairCodePoint(hi, lo) == (hi - 55296) * 1024 + (lo - 56320) + 65536

BracedPairTexts ==
    {Quoted(BracedEscape(HexOf(PairCodePoint(hi, lo)))) :
        hi \in LeadingSamples, lo \in TrailingSamples}

\* braced escapes of at most MaxBracedLen digits: one more than the 8 digits
\* the lexer accepts
MaxBracedLen == 9

\* 0, 1 and D: D in the eighth place from the right sets the sign bit of the
\* accumulator, DD00 is a surrogate, 110000 is above U+10FFFF
BracedAlphabet == {<<Ch.zero>>, <<Ch.one>>, <<Ch.D>>}

BracedTexts == {Quoted(BracedEscape(d)) : d \in Texts(BracedAlphabet, MaxBracedLen)}

\* strings of at most MaxEscLen pieces, after a prefix that sets the line and
\* the column of the string, with or without the closing quote
MaxEscLen == 3

EscAlphabet ==
    {<<Ch.backslash, Ch.n>>, <<Ch.backslash, Ch.x>>,
     FixedEscape(65), FixedEscape(55357), FixedEscape(56832),
     <<Ch.backslash, Ch.u, Ch.zero, Ch.zero>>,
     <<Ch.backslash, Ch.u, Ch.lbrace>>, <<Ch.rbrace>>,
     <<Ch.zero, Ch.one>>, <<Ch.one, Ch.one, Ch.zero, Ch.zero, Ch.zero, Ch.zero>>,
     <<Ch.x>>, EAcute}

EscPrefixes == {<<>>, <<Ch.a, Ch.space>>, <<Ch.hash>> \o EAcute \o <<Ch.lf, Ch.space>>}

EscTexts ==
    {p \o <<Ch.quote>> \o b \o c :
        p \in EscPrefixes, b \in Texts(EscAlphabet, MaxEscLen), c \in {<<>>, <<Ch.quote>>}}

InitString == InitWith(PairTexts \cup BracedPairTexts \cup BracedTexts \cup EscTexts, "lex")

SpecString == InitString /\ [][NextLex]_vars

(***************************************************************************)
(* C11: for every leading surrogate hi in 0xD800..0xDBFF and trailing      *)
(* surrogate lo in 0xDC00..0xDFFF the string "\uhi\ulo" lexes to the same  *)
(* STRING literal as "\u{X}" with X = (hi - 0xD800) * 0x400 +              *)
(* (lo - 0xDC00) + 0x10000, and X lies in 0x10000..0x10FFFF.  Checked for  *)
(* the sampled surrogates; the literal is also required to be the UTF-8    *)
(* encoding of X.                                                          *)
(***************************************************************************)
C11_SurrogatePair ==
    (pc = "lex" /\ tok # NoTok /\ Len(input) = 14) =>
    \A hi \in LeadingSamples, lo \in TrailingSamples :
        input = PairText(hi, lo) =>
            LET X == PairCodePoint(hi, lo)
                braced == Call("NextToken", <<lexerNew(Quoted(BracedEscape(HexOf(X))))>>)
            IN  /\ 65536 <= X /\ X <= 1114111
                /\ err = NoErr
                /\ Len(toks) = 1
                /\ toks[1].Type = "STRING"
                /\ braced.err = NoErr
                /\ braced.tok.Type = "STRING"
                /\ toks[1].Literal = braced.tok.Literal
                /\ DecodeRuneInString(toks[1].Literal, 0) = [r |-> X, size |-> 4]
                /\ Len(toks[1].Literal) = 4

\* the pair DBFF, DFFF has been lexed to U+10FFFF and the end of input reached
C11_Witness ==
    /\ pc = "lex"
    /\ input = PairText(56319, 57343)
    /\ tok.Type = "EOF"
    /\ err = NoErr
    /\ Len(toks) = 1
    /\ toks[1].Type = "STRING"
    /\ toks[1].Literal = <<244, 143, 191, 191>>

(***************************************************************************)
(* Reference reading of hexadecimal digits (upper-case digits, as the      *)
(* inputs are written).                                                    *)
(***************************************************************************)
IsHexDigit(c) == (Ch.zero <= c /\ c <= Ch.nine) \/ (Ch.A <= c /\ c <= Ch.F)

HexDigitValue(c) == CHOOSE d \in 0..15 : HexDigit(d) = c

RECURSIVE StripZeros(_)
StripZeros(d) == IF d # <<>> /\ Head(d) = Ch.zero THEN StripZeros(Tail(d)) ELSE d

RECURSIVE HexValue(_)
\* the number written by at most seven hexadecimal digits
HexValue(d) ==
    IF d = <<>> THEN 0
    ELSE HexValue(SubSeq(d, 1, Len(d) - 1)) * 16 + HexDigitValue(d[Len(d)])

\* the digits write a Unicode scalar value: at most six significant digits,
\* at most 0x10FFFF, not a surrogate
IsScalarHex(d) ==
    /\ Len(StripZeros(d)) <= 6
    /\ HexValue(StripZeros(d)) <= 1114111
    /\ ~(55296 <= HexValue(StripZeros(d)) /\ HexValue(StripZeros(d)) <= 57343)

\* the input is "\u{d}" for hexadecimal digits d
IsBracedText(s) ==
    /\ Len(s) >= 6
    /\ SubSeq(s, 1, 4) = <<Ch.quote, Ch.backslash, Ch.u, Ch.lbrace>>
    /\ SubSeq(s, Len(s) - 1, Len(s)) = <<Ch.rbrace, Ch.quote>>
    /\ \A i \in 5..(Len(s) - 2) : IsHexDigit(s[i])

BracedDigits(s) == SubSeq(s, 5, Len(s) - 2)

(***************************************************************************)
(* C12: a braced escape \u{H+} is accepted exactly when it has 1 to 8      *)
(* hexadecimal digits and their value is a Unicode scalar value, and the   *)
(* decoded code point is that value; empty braces, a ninth digit, a        *)
(* surrogate value and every value above 0x10FFFF (8-digit values of       *)
(* 0x80000000 and more included, which are negative in the 32-bit          *)
(* accumulator) are lexical errors.                                        *)
(***************************************************************************)
C12_BracedEscape ==
    (pc = "lex" /\ tok # NoTok /\ IsBracedText(input)) =>
        LET d == BracedDigits(input)
        IN  IF Len(d) >= 1 /\ Len(d) <= 8 /\ IsScalarHex(d)
            THEN /\ err = NoErr
                 /\ Len(toks) = 1
                 /\ toks[1].Type = "STRING"
                 /\ DecodeRuneInString(toks[1].Literal, 0) =
                        [r |-> HexValue(StripZeros(d)), size |-> Len(toks[1].Literal)]
            ELSE /\ err.kind = "LexError"
                 /\ toks = <<>>

\* "\u{D0000000}", whose value has the sign bit of the accumulator set, has
\* been rejected as out of range
C12_Witness ==
    /\ pc = "lex"
    /\ input = Quoted(BracedEscape(<<Ch.D, Ch.zero, Ch.zero, Ch.zero, Ch.zero,
                                     Ch.zero, Ch.zero, Ch.zero>>))
    /\ err.kind = "LexError"
    /\ err.msg = "unicode escape sequence is out of range or invalid"
    /\ toks = <<>>

(***************************************************************************)
(* Reference grammar of the escape sequences of a string: the length of    *)
(* the valid escape sequence that starts with the backslash at offset i of *)
(* s, or 0 when there is none.                                             *)
(***************************************************************************)
\* the byte at offset i, or eof past the end
ByteAt(s, i) == IF i < Len(s) THEN s[i + 1] ELSE eof

AllHex(s, i, n) == \A k \in 0..(n - 1) : IsHexDigit(ByteAt(s, i + k))

\* the value of \uXXXX at offset i, or -1
FixedValue(s, i) ==
    IF ByteAt(s, i) = Ch.backslash /\ ByteAt(s, i + 1) = Ch.u /\ AllHex(s, i + 2, 4)
    THEN HexValue(SubSeq(s, i + 3, i + 6)) ELSE -1

\* the number of hexadecimal digits from offset i on
HexRun(s, i) ==
    LET ends == {n \in 0..(Len(s) - i) : ~IsHexDigit(ByteAt(s, i + n))}
    IN  IF i >= Len(s) THEN 0
        ELSE CHOOSE n \in ends : \A m \in ends : n <= m

SimpleEscapes ==
    {Ch.quote, Ch.backslash, Ch.slash, Ch.b, Ch.f, Ch.n, Ch.r, Ch.t}

ValidEscapeLen(s, i) ==
    LET c == ByteAt(s, i + 1)
        n == HexRun(s, i + 3)
        v == FixedValue(s, i)
        w == FixedValue(s, i + 6)
    IN  IF c \in SimpleEscapes THEN 2
        ELSE IF c # Ch.u THEN 0
        ELSE IF ByteAt(s, i + 2) = Ch.lbrace
        THEN IF /\ n >= 1 /\ n <= 8
                /\ ByteAt(s, i + 3 + n) = Ch.rbrace
                /\ IsScalarHex(SubSeq(s, i + 4, i + 3 + n))
             THEN n + 4 ELSE 0
        ELSE IF v = -1 THEN 0
        ELSE IF v < 55296 \/ v > 57343 THEN 6
        ELSE IF v <= 56319 /\ w >= 56320 /\ w <= 57343 THEN 12
        ELSE 0

RECURSIVE FirstBadEscape(_, _)
\* the offset of the backslash of the first invalid escape sequence of the
\* string whose content starts at offset i, or -1 when the string ends or
\* breaks off for another reason before one
FirstBadEscape(s, i) ==
    LET c == ByteAt(s, i)
    IN  IF c = eof \/ c = Ch.quote \/ c < 32 THEN -1
        ELSE IF c # Ch.backslash THEN FirstBadEscape(s, i + 1)
        ELSE IF ValidEscapeLen(s, i) = 0 THEN i
        ELSE FirstBadEscape(s, i + ValidEscapeLen(s, i))

\* the offset of the first quote of s
StringStart(s) == (CHOOSE i \in 1..Len(s) : s[i] = Ch.quote /\ \A j \in 1..(i - 1) : s[j] # Ch.quote) - 1

EscapeMessages ==
    {"unknown escape sequence",
     "invalid hex digit in Unicode escape sequence",
     "expected '\\u' for trailing surrogate in Unicode escape sequence",
     "expected 'u' after '\\' in Unicode escape sequence",
     "invalid trailing surrogate in Unicode escape sequence",
     "invalid Unicode escape sequence",
     "unterminated Unicode escape sequence",
     "unicode escape sequence is too long",
     "unicode escape sequence cannot be empty",
     "unicode escape sequence is out of range or invalid"}

(***************************************************************************)
(* C13: every lexical error raised while an escape sequence of a string is *)
(* decoded carries the line and the column of the backslash that began the *)
(* escape sequence; for a surrogate pair this is the backslash of the      *)
(* leading surrogate.  The inputs hold one string: when its first invalid  *)
(* escape sequence begins at offset b, no STRING token is returned, and    *)
(* the error NextToken returns is an escape error at the line and column   *)
(* of b; an escape error arises in no other case.                          *)
(***************************************************************************)
C13_EscapeErrorPosition ==
    LET b == FirstBadEscape(input, StringStart(input) + 1)
    IN  pc = "lex" =>
            /\ b # -1 => (\A i \in 1..Len(toks) : toks[i].Type # "STRING")
                         /\ ~(err = NoErr /\ tok.Type = "EOF")
            /\ (b # -1 /\ err # NoErr) =>
                   /\ err.kind = "LexError"
                   /\ err.msg \in EscapeMessages
                   /\ err.Line = RefLine(input, b)
                   /\ err.Column = RefColumn(input, b)
            /\ (err.msg \in EscapeMessages) => b # -1

\* a leading surrogate followed by a code point that is no trailing
\* surrogate, on the second line after a two-byte code point: the error is
\* at the backslash of the leading surrogate (line 2, column 4)
C13_Witness ==
    /\ pc = "lex"
    /\ input = <<Ch.hash>> \o EAcute \o <<Ch.lf, Ch.space, Ch.quote>> \o EAcute
                   \o FixedEscape(55357) \o FixedEscape(65) \o <<Ch.quote>>
    /\ err.msg = "invalid trailing surrogate in Unicode escape sequence"
    /\ err.Line = 2
    /\ err.Column = 4

(***************************************************************************)
(* Raw block string values of at most MaxBlockLen pieces.                  *)
(***************************************************************************)
MaxBlockLen == 5

BlockAlphabet ==
    {<<Ch.a>>, <<Ch.space>>, <<Ch.tab>>, <<Ch.lf>>, <<Ch.cr>>,
     <<Ch.space, Ch.space, Ch.a>>}

InitBlock == InitRaw({<<>>}, "block", Texts(BlockAlphabet, MaxBlockLen))

NextBlock == CallProcessBlockStringValue

SpecBlock == InitBlock /\ [][NextBlock]_vars

(***************************************************************************)
(* The reference normalization of a raw block string value.                *)
(***************************************************************************)
RECURSIVE RefLines(_)
\* the lines of s, LF, CR and CR LF each being one delimiter
RefLines(s) ==
    LET terms == {i \in 1..Len(s) : s[i] = Ch.lf \/ s[i] = Ch.cr}
        i == CHOOSE k \in terms : \A j \in terms : k <= j
        n == IF s[i] = Ch.cr /\ i < Len(s) /\ s[i + 1] = Ch.lf THEN 2 ELSE 1
    IN  IF terms = {} THEN <<s>>
        ELSE <<SubSeq(s, 1, i - 1)>> \o RefLines(SubSeq(s, i + n, Len(s)))

IsSpaceOrTab(c) == c = Ch.space \/ c = Ch.tab

HasNonWhitespace(line) == \E i \in 1..Len(line) : ~IsSpaceOrTab(line[i])

\* the number of leading spaces and tabs of a line
RefIndent(line) ==
    Cardinality({i \in 1..Len(line) : \A j \in 1..i : IsSpaceOrTab(line[j])})

\* the common indent, 0 when no non-first line holds a non-whitespace character
RefCommonIndent(lines) ==
    LET indents == {RefIndent(lines[i]) :
                       i \in {j \in 2..Len(lines) : HasNonWhitespace(lines[j])}}
    IN  IF indents = {} THEN 0
        ELSE CHOOSE n \in indents : \A m \in indents : n <= m

\* the line without its first n characters
RefStrip(line, n) == IF Len(line) <= n THEN <<>> ELSE SubSeq(line, n + 1, Len(line))

RECURSIVE RefJoin(_)
RefJoin(lines) ==
    IF Len(lines) = 1 THEN lines[1]
    ELSE lines[1] \o <<Ch.lf>> \o RefJoin(Tail(lines))

RefBlockValue(s) ==
    LET lines == RefLines(s)
        n == RefCommonIndent(lines)
        stripped == [i \in 1..Len(lines) |->
                        IF i = 1 THEN lines[i] ELSE RefStrip(lines[i], n)]
        full == {i \in 1..Len(lines) : HasNonWhitespace(stripped[i])}
        first == CHOOSE i \in full : \A j \in full : i <= j
        last == CHOOSE i \in full : \A j \in full : j <= i
    IN  IF full = {} THEN <<>> ELSE RefJoin(SubSeq(stripped, first, last))

(***************************************************************************)
(* C14: for every raw block string body, processBlockStringValue returns   *)
(* the value of the reference normalization: split on LF, CR or CR LF;     *)
(* common indent = least count of leading spaces and tabs over the         *)
(* non-first lines that hold a non-whitespace character; when it is > 0,   *)
(* that many leading characters are removed from every line except the     *)
(* first (a shorter line loses all its characters); leading and trailing   *)
(* blank lines are dropped; the lines are joined with LF; all lines blank  *)
(* gives the empty literal.                                                *)
(***************************************************************************)
C14_BlockStringValue == pc = "returned" => formatted = RefBlockValue(raw)

(***************************************************************************)
(* Inputs with bytes that are not UTF-8: 0xFF, which starts no encoding,   *)
(* and 0xC3, the first byte of a two-byte encoding, wherever no            *)
(* continuation byte follows it.                                           *)
(***************************************************************************)
MaxUtf8Len == 4

Utf8Alphabet ==
    {<<Ch.a>>, <<Ch.space>>, <<Ch.lf>>, <<Ch.quote>>, <<Ch.hash>>,
     <<Ch.quote, Ch.quote, Ch.quote>>, EAcute, <<255>>, <<195>>}

InitUtf8 == InitWith(Texts(Utf8Alphabet, MaxUtf8Len), "lex")

SpecUtf8 == InitUtf8 /\ [][NextLex]_vars

\* the length of the well-formed UTF-8 encoding at offset i of s (Unicode
\* Standard, table 3-7), or 0
WellFormedLen(s, i) ==
    LET b0 == ByteAt(s, i)
        b1 == ByteAt(s, i + 1)
        c2 == isCont(ByteAt(s, i + 2))
        c3 == isCont(ByteAt(s, i + 3))
    IN  IF b0 < 128 THEN 1
        ELSE IF 194 <= b0 /\ b0 <= 223 THEN (IF isCont(b1) THEN 2 ELSE 0)
        ELSE IF b0 = 224 THEN (IF 160 <= b1 /\ b1 <= 191 /\ c2 THEN 3 ELSE 0)
        ELSE IF b0 = 237 THEN (IF 128 <= b1 /\ b1 <= 159 /\ c2 THEN 3 ELSE 0)
        ELSE IF 225 <= b0 /\ b0 <= 239 THEN (IF isCont(b1) /\ c2 THEN 3 ELSE 0)
        ELSE IF b0 = 240 THEN (IF 144 <= b1 /\ b1 <= 191 /\ c2 /\ c3 THEN 4 ELSE 0)
        ELSE IF b0 = 244 THEN (IF 128 <= b1 /\ b1 <= 143 /\ c2 /\ c3 THEN 4 ELSE 0)
        ELSE IF 241 <= b0 /\ b0 <= 243 THEN (IF isCont(b1) /\ c2 /\ c3 THEN 4 ELSE 0)
        ELSE 0

RECURSIVE FirstInvalidByte(_, _)
\* the offset of the first byte of s from offset i on that starts no
\* well-formed encoding, or -1
FirstInvalidByte(s, i) ==
    IF i >= Len(s) THEN -1
    ELSE IF WellFormedLen(s, i) = 0 THEN i
    ELSE FirstInvalidByte(s, i + WellFormedLen(s, i))

(***************************************************************************)
(* C15: for an input holding a byte sequence that is not valid UTF-8,      *)
(* lexing returns a lexical error located at the offending byte and no     *)
(* token that covers it, be the byte between tokens, in a string, in a     *)
(* block string or in a comment.  With b the offset of the first invalid   *)
(* byte: no returned token covers b, the end of input is never returned,   *)
(* and an error returned once the lexer has reached b has the line and     *)
(* column of b.                                                            *)
(***************************************************************************)
C15_InvalidUtf8 ==
    LET b == FirstInvalidByte(input, 0)
    IN  (pc = "lex" /\ b # -1) =>
            /\ \A i \in 1..Len(toks) : ~(toks[i].Start <= b /\ b < toks[i].End)
            /\ ~(err = NoErr /\ tok.Type = "EOF")
            /\ (err # NoErr /\ cursor.offset >= b) =>
                   /\ err.kind = "LexError"
                   /\ err.Line = RefLine(input, b)
                   /\ err.Column = RefColumn(input, b)

(***************************************************************************)
(* Documents with selection sets: an operation, a fragment definition or   *)
(* nothing, followed by at most MaxSelLen lexemes.                         *)
(***************************************************************************)
MaxSelLen == 5

\* a sequence of lexemes, each followed by a space
Words(ws) == Flatten([i \in 1..Len(ws) |-> ws[i] \o <<Ch.space>>])

InlineFragmentHead == Words(<<<<Ch.dot, Ch.dot, Ch.dot>>, Str.on, <<Ch.a>>>>)

SelectionHeads ==
    {<<>>, Words(<<Str.query, <<Ch.a>>>>),
     Words(<<Str.fragment, <<Ch.a>>, Str.on, <<Ch.a>>>>)}

SelectionAlphabet ==
    Spaced({<<Ch.lbrace>>, <<Ch.rbrace>>, <<Ch.a>>}) \cup {InlineFragmentHead}

SelectionDocs ==
    {h \o t : h \in SelectionHeads, t \in Texts(SelectionAlphabet, MaxSelLen)}

InitSelections == InitWith(SelectionDocs, "new")

SpecSelections == InitSelections /\ [][NextParse]_vars

RECURSIVE SelectionSetsNonEmpty(_)
\* every SelectionSet in the node n holds at least one selection
SelectionSetsNonEmpty(n) ==
    IF n.kind = "SelectionSet"
    THEN /\ Len(n.Selections) >= 1
         /\ \A i \in 1..Len(n.Selections) : SelectionSetsNonEmpty(n.Selections[i])
    ELSE IF n.kind \in {"OperationDefinition", "FragmentDefinition", "InlineFragment",
                        "Field"}
    THEN SelectionSetsNonEmpty(n.SelectionSet)
    ELSE TRUE

(***************************************************************************)
(* C16: every SelectionSet in a successfully parsed Document holds at      *)
(* least one selection; the empty braces {} are rejected wherever a        *)
(* selection set is expected (operation, fragment definition, inline       *)
(* fragment, field).                                                       *)
(***************************************************************************)
C16_SelectionSetNonEmpty ==
    (pc = "done" /\ retErr = NoErr) =>
        \A i \in 1..Len(retDoc.Definitions) : SelectionSetsNonEmpty(retDoc.Definitions[i])

(***************************************************************************)
(* Documents with a type: a variable definition, a field definition, an    *)
(* argument definition or an input field definition whose type is written  *)
(* with at most MaxTypeLen lexemes.                                        *)
(***************************************************************************)
MaxTypeLen == 5

TypeAlphabet == Spaced({<<Ch.a>>, <<Ch.lbrack>>, <<Ch.rbrack>>, <<Ch.bang>>})

\* the text before and the text after the type
TypeContexts ==
    {<<Words(<<Str.query, <<Ch.a>>, <<Ch.lparen>>, <<Ch.dollar, Ch.a>>, <<Ch.colon>>>>),
       Words(<<<<Ch.rparen>>, <<Ch.lbrace>>, <<Ch.a>>, <<Ch.rbrace>>>>)>>,
     <<Words(<<Str.type, <<Ch.a>>, <<Ch.lbrace>>, <<Ch.a>>, <<Ch.colon>>>>),
       Words(<<<<Ch.rbrace>>>>)>>,
     <<Words(<<Str.type, <<Ch.a>>, <<Ch.lbrace>>, <<Ch.a>>, <<Ch.lparen>>, <<Ch.a>>,
              <<Ch.colon>>>>),
       Words(<<<<Ch.rparen>>, <<Ch.colon>>, <<Ch.a>>, <<Ch.rbrace>>>>)>>,
     <<Words(<<Str.input, <<Ch.a>>, <<Ch.lbrace>>, <<Ch.a>>, <<Ch.colon>>>>),
       Words(<<<<Ch.rbrace>>>>)>>}

TypeDocs ==
    {c[1] \o t \o c[2] : c \in TypeContexts, t \in Texts(TypeAlphabet, MaxTypeLen)}

InitTypes == InitWith(TypeDocs, "new")

SpecTypes == InitTypes /\ [][NextParse]_vars

RECURSIVE NoNonNullInNonNull(_)
\* no NonNullType in the type t wraps a NonNullType
NoNonNullInNonNull(t) ==
    IF t.kind = "NonNullType"
    THEN t.Type.kind \in {"NamedType", "ListType"} /\ NoNonNullInNonNull(t.Type)
    ELSE IF t.kind = "ListType" THEN NoNonNullInNonNull(t.Type)
    ELSE t.kind = "NamedType"

\* the types of the definition d: of its variables, of its fields and of
\* their arguments
TypesOf(d) ==
    IF d.kind = "OperationDefinition"
    THEN {d.VariableDefs[i].Type : i \in 1..Len(d.VariableDefs)}
    ELSE IF d.kind = "InputObjectTypeDefinition"
    THEN {d.Fields[i].Type : i \in 1..Len(d.Fields)}
    ELSE IF d.kind = "ObjectTypeDefinition"
    THEN {d.Fields[i].Type : i \in 1..Len(d.Fields)}
         \cup UNION {{d.Fields[i].Arguments[j].Type : j \in 1..Len(d.Fields[i].Arguments)} :
                        i \in 1..Len(d.Fields)}
    ELSE {}

\* a '!' lexeme directly followed by a '!' lexeme
HasDoubleBang(s) ==
    \E i \in 1..(Len(s) - 2) : s[i] = Ch.bang /\ s[i + 1] = Ch.space /\ s[i + 2] = Ch.bang

(***************************************************************************)
(* C17: no AST the parser returns holds a NonNullType whose inner type is  *)
(* a NonNullType (parseType wraps a NamedType or a ListType in at most one *)
(* NonNullType per nesting level), and a second '!' directly after a '!'   *)
(* makes the parse fail.  The types of every definition parsed so far are  *)
(* examined, and the outcome of ParseDocument for a text with '! !'.       *)
(***************************************************************************)
C17_NoNestedNonNull ==
    /\ \A i \in 1..Len(doc) : \A t \in TypesOf(doc[i]) : NoNonNullInNonNull(t)
    /\ (pc = "done" /\ HasDoubleBang(input)) => (retErr # NoErr /\ retDoc = Nil)

\* [ a ! ] ! has been parsed as the type of a variable
C17_Witness ==
    /\ pc = "done"
    /\ retErr = NoErr
    /\ Len(retDoc.Definitions) = 1
    /\ retDoc.Definitions[1].kind = "OperationDefinition"
    /\ Len(retDoc.Definitions[1].VariableDefs) = 1
    /\ LET t == retDoc.Definitions[1].VariableDefs[1].Type
       IN  /\ t.kind = "NonNullType"
           /\ t.Type.kind = "ListType"
           /\ t.Type.Type.kind = "NonNullType"
           /\ t.Type.Type.Type.kind = "NamedType"

(***************************************************************************)
(* Type system extensions: extend, one of the seven keywords, and at most  *)
(* MaxExtLen lexemes or groups of lexemes.                                 *)
(***************************************************************************)
MaxExtLen == 4

ExtensionKeywords ==
    {Str.schema, Str.scalar, Str.type, Str.interface, Str.union, Str.enum, Str.input}

DirectiveA == Words(<<<<Ch.at, Ch.a>>>>)

\* a : a, a field, an input field or a root operation type definition
FieldA == Words(<<<<Ch.a>>, <<Ch.colon>>, <<Ch.a>>>>)

ExtensionAlphabet ==
    Spaced({<<Ch.a>>, <<Ch.lbrace>>, <<Ch.rbrace>>})
        \cup {DirectiveA, FieldA, Words(<<<<Ch.equals>>, <<Ch.a>>>>),
              Words(<<Str.implements, <<Ch.a>>>>)}

ExtensionHead(k) == Words(<<Str.extend, k>>)

ExtensionDocs ==
    {ExtensionHead(k) \o t : k \in ExtensionKeywords,
                             t \in Texts(ExtensionAlphabet, MaxExtLen)}

InitExtensions == InitWith(ExtensionDocs, "new")

SpecExtensions == InitExtensions /\ [][NextParse]_vars

\* s begins with the text w
StartsWith(s, w) == Len(s) >= Len(w) /\ SubSeq(s, 1, Len(w)) = w

\* extend scalar a, not followed by a directive
ScalarWithoutDirective(s) ==
    /\ StartsWith(s, ExtensionHead(Str.scalar) \o Words(<<<<Ch.a>>>>))
    /\ ~StartsWith(s, ExtensionHead(Str.scalar) \o Words(<<<<Ch.a>>>>) \o DirectiveA)

(***************************************************************************)
(* C18: extend scalar Name with no directive after the name is a parse     *)
(* error: parseScalarTypeExtension never returns a ScalarTypeExtension     *)
(* with an empty directive list, and ParseDocument returns no Document for *)
(* such an input.                                                          *)
(***************************************************************************)
C18_ScalarExtensionDirectives ==
    /\ \A i \in 1..Len(doc) :
           doc[i].kind = "ScalarTypeExtension" => Len(doc[i].Directives) >= 1
    /\ ScalarWithoutDirective(input) =>
           /\ doc = <<>>
           /\ retDoc = Nil
           /\ pc = "done" => retErr.msg = "directives required"

\* extend scalar a a has been refused
C18_Witness ==
    /\ input = ExtensionHead(Str.scalar) \o Words(<<<<Ch.a>>, <<Ch.a>>>>)
    /\ pc = "done"
    /\ retErr.msg = "directives required"
    /\ retDoc = Nil

\* the extension node d adds something: an implements clause, a directive
\* or a member of its body
HasModification(d) ==
    IF d.kind \in {"ObjectTypeExtension", "InterfaceTypeExtension"}
    THEN Len(d.Interfaces) + Len(d.Directives) + Len(d.Fields) >= 1
    ELSE IF d.kind = "UnionTypeExtension" THEN Len(d.Directives) + Len(d.Types) >= 1
    ELSE IF d.kind = "EnumTypeExtension" THEN Len(d.Directives) + Len(d.Values) >= 1
    ELSE IF d.kind = "InputObjectTypeExtension"
    THEN Len(d.Directives) + Len(d.Fields) >= 1
    ELSE IF d.kind = "SchemaExtension"
    THEN Len(d.Directives) + Len(d.RootOperationDefs) >= 1
    ELSE TRUE

(***************************************************************************)
(* C19: every object, interface, union, enum, input object or schema       *)
(* extension node of a successfully parsed Document introduces at least    *)
(* one modification; an extension with no implements clause, no directive  *)
(* and no body is rejected with a parse error.                             *)
(***************************************************************************)
C19_ExtensionModifies ==
    (pc = "done" /\ retErr = NoErr) =>
        \A i \in 1..Len(retDoc.Definitions) : HasModification(retDoc.Definitions[i])

\* extend schema, i directives, and j root operation type definitions in
\* braces (no braces when j = 0)
SchemaExtensionText(i, j) ==
    ExtensionHead(Str.schema) \o Repeat(DirectiveA, i)
        \o (IF j = 0 THEN <<>>
            ELSE Words(<<<<Ch.lbrace>>>>) \o Repeat(FieldA, j) \o Words(<<<<Ch.rbrace>>>>))

(***************************************************************************)
(* C20: extend schema, optional directives, then a braced list of root     *)
(* operation type definitions parses to one SchemaExtension that holds the *)
(* directives and the root operation definitions in source order, the      *)
(* parser being positioned after the closing brace; extend schema with     *)
(* directives and no braces parses to a SchemaExtension with only the      *)
(* directives.  Here with i directives @a and j definitions a : a, the     *)
(* node positions telling the source order.                                *)
(***************************************************************************)
C20_SchemaExtension ==
    \A i \in 0..MaxExtLen, j \in 0..MaxExtLen :
        (pc = "done" /\ i + j >= 1 /\ input = SchemaExtensionText(i, j)) =>
            /\ retErr = NoErr
            /\ curToken.Type = "EOF"
            /\ Len(retDoc.Definitions) = 1
            /\ LET d == retDoc.Definitions[1]
                   h == Len(ExtensionHead(Str.schema))
               IN  /\ d.kind = "SchemaExtension"
                   /\ Len(d.Directives) = i
                   /\ \A k \in 1..i :
                          /\ d.Directives[k].kind = "Directive"
                          /\ d.Directives[k].Position = h + Len(DirectiveA) * (k - 1)
                   /\ Len(d.RootOperationDefs) = j
                   /\ \A k \in 1..j :
                          /\ d.RootOperationDefs[k].kind = "RootOperationTypeDefinition"
                          /\ d.RootOperationDefs[k].Position =
                                 h + Len(DirectiveA) * i + 2 + Len(FieldA) * (k - 1)

(***************************************************************************)
(* Fragment definitions: fragment and at most MaxFragLen lexemes or groups *)
(* of lexemes.                                                             *)
(***************************************************************************)
MaxFragLen == 5

\* { a }
SelectionSetA == Words(<<<<Ch.lbrace>>, <<Ch.a>>, <<Ch.rbrace>>>>)

FragmentAlphabet ==
    Spaced({<<Ch.a>>, Str.on, <<Ch.lbrace>>, <<Ch.rbrace>>})
        \cup {DirectiveA, SelectionSetA}

FragmentHead == Words(<<Str.fragment>>)

FragmentDocs == {FragmentHead \o t : t \in Texts(FragmentAlphabet, MaxFragLen)}

InitFragments == InitWith(FragmentDocs, "new")

SpecFragments == InitFragments /\ [][NextParse]_vars

\* fragment a on a, i directives @a, { a }
FragmentText(i) ==
    FragmentHead \o Words(<<<<Ch.a>>, Str.on, <<Ch.a>>>>) \o Repeat(DirectiveA, i)
        \o SelectionSetA

(***************************************************************************)
(* C21: parseFragmentDefinition accepts zero or more directives between    *)
(* the type condition and the selection set and stores them in             *)
(* FragmentDefinition.Directives in source order.  Here for fragment a on  *)
(* a, i directives @a and { a }, the positions telling the order.          *)
(***************************************************************************)
C21_FragmentDirectives ==
    \A i \in 0..MaxFragLen :
        (pc = "done" /\ input = FragmentText(i)) =>
            /\ retErr = NoErr
            /\ Len(retDoc.Definitions) = 1
            /\ LET d == retDoc.Definitions[1]
                   h == Len(FragmentText(0)) - Len(SelectionSetA)
               IN  /\ d.kind = "FragmentDefinition"
                   /\ Len(d.Directives) = i
                   /\ \A k \in 1..i :
                          /\ d.Directives[k].kind = "Directive"
                          /\ d.Directives[k].Position = h + Len(DirectiveA) * (k - 1)

(***************************************************************************)
(* C22: no FragmentDefinition the parser returns has the name on; a        *)
(* fragment definition whose name token is the NAME on is rejected with a  *)
(* parse error.                                                            *)
(***************************************************************************)
C22_FragmentNameNotOn ==
    \A i \in 1..Len(doc) :
        doc[i].kind = "FragmentDefinition" => doc[i].Name.Value # Str.on


(***************************************************************************)
(* Descriptions: a string or block string, a keyword, and what follows.    *)
(***************************************************************************)
MaxDescLen == 4

\* w as a block string
BlockQuoted(w) ==
    <<Ch.quote, Ch.quote, Ch.quote>> \o w \o <<Ch.quote, Ch.quote, Ch.quote>>

\* the descriptions: of any content, and of the content of a keyword
DescriptionTexts ==
    Spaced({Quoted(w) : w \in {<<Ch.a>>, Str.query, Str.fragment, Str.extend}}
               \cup {BlockQuoted(w) : w \in {<<Ch.a>>, Str.fragment}})

\* what is no type-system keyword: operations, fragment, extend, a name, {
OtherHeads ==
    Spaced({Str.query, Str.mutation, Str.fragment, Str.extend, <<Ch.a>>,
            <<Ch.lbrace>>})

DescribedAlphabet == Spaced({<<Ch.a>>, Str.on, Str.scalar}) \cup {SelectionSetA}

DescribedDocs ==
    {d \o k \o t : d \in DescriptionTexts,
                   k \in OtherHeads \cup Spaced({Str.scalar}),
                   t \in Texts(DescribedAlphabet, MaxDescLen)}

InitDescribed == InitWith(DescribedDocs, "new")

SpecDescribed == InitDescribed /\ [][NextParse]_vars

\* C23: a document that starts with a string or block string token directly
\* followed by an operation keyword, by fragment, by extend, or by something
\* that is no type-system keyword, ends in a parse error, whatever the string
\* holds.
C23_DescriptionOnlyTypeSystem ==
    \A d \in DescriptionTexts, k \in OtherHeads :
        (pc = "done" /\ StartsWith(input, d \o k)) => retErr # NoErr


(***************************************************************************)
(* Enum values: the values of an argument and the values of an enum type.  *)
(***************************************************************************)
MaxEnumLen == 4

ReservedNames == {Str.true, Str.false, Str.null}

\* query a { a ( a :     the start of a field with one argument
ArgumentHead ==
    Words(<<Str.query, <<Ch.a>>, <<Ch.lbrace>>, <<Ch.a>>, <<Ch.lparen>>, <<Ch.a>>,
            <<Ch.colon>>>>)

\* ) }
ArgumentTail == Words(<<<<Ch.rparen>>, <<Ch.rbrace>>>>)

ValueAlphabet ==
    Spaced(ReservedNames \cup {<<Ch.a>>, <<Ch.lbrack>>, <<Ch.rbrack>>})
        \cup {ArgumentTail}

\* enum a {     and     extend enum a {
EnumHeads ==
    {Words(<<Str.enum, <<Ch.a>>, <<Ch.lbrace>>>>),
     Words(<<Str.extend, Str.enum, <<Ch.a>>, <<Ch.lbrace>>>>)}

EnumAlphabet == Spaced(ReservedNames \cup {<<Ch.a>>, <<Ch.rbrace>>})

EnumDocs ==
    {ArgumentHead \o t : t \in Texts(ValueAlphabet, MaxEnumLen)}
        \cup {h \o t : h \in EnumHeads, t \in Texts(EnumAlphabet, MaxEnumLen)}

InitEnums == InitWith(EnumDocs, "new")

SpecEnums == InitEnums /\ [][NextParse]_vars

\* the names of the enum values in the value v
RECURSIVE EnumNamesIn(_)
EnumNamesIn(v) ==
    IF v.kind = "EnumValue" THEN {v.Value}
    ELSE IF v.kind = "ListValue"
    THEN UNION {EnumNamesIn(v.Values[k]) : k \in 1..Len(v.Values)}
    ELSE {}

\* the names of the enum values in the arguments of the fields of the
\* operation d
EnumNamesOfOperation(d) ==
    UNION {UNION {EnumNamesIn(d.SelectionSet.Selections[j].Arguments[k].Value) :
                    k \in 1..Len(d.SelectionSet.Selections[j].Arguments)} :
             j \in {j \in 1..Len(d.SelectionSet.Selections) :
                      d.SelectionSet.Selections[j].kind = "Field"}}

\* the names of the enum value definitions of the enum type d
EnumNamesOfType(d) == {d.Values[k].Name.Value : k \in 1..Len(d.Values)}

\* the names used as enum names in the definition d
EnumNamesOf(d) ==
    IF d.kind = "OperationDefinition" THEN EnumNamesOfOperation(d)
    ELSE IF d.kind \in {"EnumTypeDefinition", "EnumTypeExtension"}
    THEN EnumNamesOfType(d)
    ELSE {}

\* query a { a ( a : w ) }
ValueText(w) == ArgumentHead \o w \o <<Ch.space>> \o ArgumentTail

\* the node parseValue makes of the name w at offset o
ValueOfName(w, o) ==
    IF w = Str.true THEN [kind |-> "BooleanValue", Position |-> o, Value |-> TRUE]
    ELSE IF w = Str.false
    THEN [kind |-> "BooleanValue", Position |-> o, Value |-> FALSE]
    ELSE IF w = Str.null THEN [kind |-> "NullValue", Position |-> o]
    ELSE [kind |-> "EnumValue", Position |-> o, Value |-> w]

RECURSIVE NonNullAtWrappedType(_)
\* every NonNullType in the type t has the Position of the type it wraps
NonNullAtWrappedType(t) ==
    IF t.kind = "NonNullType"
    THEN t.Position = t.Type.Position /\ NonNullAtWrappedType(t.Type)
    ELSE IF t.kind = "ListType" THEN NonNullAtWrappedType(t.Type)
    ELSE TRUE

\* C25: the Position of a node is the Start offset of the first token that
\* contributes to it; for a NonNullType that is the first token of the type
\* it wraps, so in every parsed definition a NonNullType and its wrapped type
\* have the same Position.
C25_PositionFirstToken ==
    \A i \in 1..Len(doc) : \A t \in TypesOf(doc[i]) : NonNullAtWrappedType(t)


RECURSIVE FirstStringBreak(_, _)
\* the offset at which the string whose content starts at offset i breaks
\* off without an escape error (the end of the input, a line terminator or
\* a code point below 0x20), or -1 when the string is closed or an escape
\* sequence is invalid before that
FirstStringBreak(s, i) ==
    LET c == ByteAt(s, i)
    IN  IF c = eof \/ c < 32 THEN i
        ELSE IF c = Ch.quote THEN -1
        ELSE IF c # Ch.backslash THEN FirstStringBreak(s, i + 1)
        ELSE IF ValidEscapeLen(s, i) = 0 THEN -1
        ELSE FirstStringBreak(s, i + ValidEscapeLen(s, i))

\* C26: when a string breaks off at the end of the input, at a line
\* terminator or at a code point below 0x20, the error NextToken returns is
\* no escape error and carries the line and column of that position, also
\* after valid escape sequences in the same string.
C26_StringErrorPosition ==
    LET o == FirstStringBreak(input, StringStart(input) + 1)
    IN  (pc = "lex" /\ o # -1 /\ err # NoErr) =>
            /\ err.kind = "LexError"
            /\ err.msg \notin EscapeMessages
            /\ err.Line = RefLine(input, o)
            /\ err.Column = RefColumn(input, o)


(***************************************************************************)
(* Keywords as names and as strings: fragment, on and scalar, each as the  *)
(* NAME and as a STRING of the same content.                               *)
(***************************************************************************)
MaxQuotedLen == 5

QuotedAlphabet ==
    Spaced({<<Ch.a>>, Str.fragment, Str.on, Quoted(Str.fragment), Quoted(Str.on)})
        \cup {SelectionSetA}

\* extend scalar a @a with scalar as a NAME and as a STRING
QuotedExtensions ==
    {Words(<<Str.extend, k, <<Ch.a>>>>) \o DirectiveA :
        k \in {Str.scalar, Quoted(Str.scalar)}}

QuotedDocs == Texts(QuotedAlphabet, MaxQuotedLen) \cup QuotedExtensions

InitQuoted == InitWith(QuotedDocs, "new")

SpecQuoted == InitQuoted /\ [][NextParse]_vars

\* the text s holds a string
HasString(s) == \E i \in 1..Len(s) : s[i] = Ch.quote

\* C27: a keyword is matched against NAME tokens only.  The documents hold no
\* place where a string is legal (no value, no type-system definition to
\* describe), so a document with a STRING whose content is fragment, on or
\* scalar ends in a parse error: the string is never taken for the keyword.
C27_KeywordIsName ==
    (pc = "done" /\ HasString(input)) => retErr # NoErr


(***************************************************************************)
(* Schema definitions: schema @a { and at most MaxSchemaLen lexemes.       *)
(***************************************************************************)
MaxSchemaLen == 5

OperationTypes == {Str.query, Str.mutation, Str.subscription}

SchemaAlphabet ==
    Spaced({Str.query, Str.mutation, <<Ch.a>>, <<Ch.colon>>, <<Ch.rbrace>>})

SchemaHead == Words(<<Str.schema>>) \o DirectiveA \o Words(<<<<Ch.lbrace>>>>)

SchemaDocs == {SchemaHead \o t : t \in Texts(SchemaAlphabet, MaxSchemaLen)}

InitSchema == InitWith(SchemaDocs, "new")

SpecSchema == InitSchema /\ [][NextParse]_vars

\* C28: every RootOperationTypeDefinition of a parsed schema definition or
\* schema extension has the operation type query, mutation or subscription.
C28_RootOperationTypes ==
    \A i \in 1..Len(doc) :
        doc[i].kind \in {"SchemaDefinition", "SchemaExtension"} =>
            \A k \in 1..Len(doc[i].RootOperationDefs) :
                doc[i].RootOperationDefs[k].OperationType \in OperationTypes


(***************************************************************************)
(* Documents cut short: documents that pass through every list loop of the *)
(* parser, each cut after any number of lexemes and followed by at most    *)
(* MaxJunkLen stray lexemes.                                               *)
(***************************************************************************)
MaxJunkLen == 1

Lx == [a |-> <<Ch.a>>, va |-> <<Ch.dollar, Ch.a>>, da |-> <<Ch.at, Ch.a>>,
       lbrace |-> <<Ch.lbrace>>, rbrace |-> <<Ch.rbrace>>,
       lparen |-> <<Ch.lparen>>, rparen |-> <<Ch.rparen>>,
       lbrack |-> <<Ch.lbrack>>, rbrack |-> <<Ch.rbrack>>,
       colon |-> <<Ch.colon>>, pipe |-> <<Ch.pipe>>, amp |-> <<Ch.amp>>,
       equals |-> <<Ch.equals>>]

LoopDocs ==
    {<<Str.query, Lx.a, Lx.lparen, Lx.va, Lx.colon, Lx.a, Lx.va, Lx.colon, Lx.a,
       Lx.rparen, Lx.da, Lx.da, Lx.lbrace, Lx.a, Lx.lparen, Lx.a, Lx.colon,
       Lx.lbrack, Lx.a, Lx.a, Lx.rbrack, Lx.a, Lx.colon, Lx.lbrace, Lx.a,
       Lx.colon, Lx.a, Lx.a, Lx.colon, Lx.a, Lx.rbrace, Lx.rparen, Lx.a,
       Lx.lbrace, Lx.a, Lx.a, Lx.rbrace, Lx.rbrace>>,
     <<Str.type, Lx.a, Str.implements, Lx.a, Lx.amp, Lx.a, Lx.lbrace, Lx.a,
       Lx.lparen, Lx.a, Lx.colon, Lx.a, Lx.a, Lx.colon, Lx.a, Lx.rparen,
       Lx.colon, Lx.a, Lx.a, Lx.colon, Lx.a, Lx.rbrace>>,
     <<Str.enum, Lx.a, Lx.lbrace, Lx.a, Lx.a, Lx.rbrace>>,
     <<Str.input, Lx.a, Lx.lbrace, Lx.a, Lx.colon, Lx.a, Lx.a, Lx.colon, Lx.a,
       Lx.rbrace>>,
     <<Str.schema, Lx.da, Lx.lbrace, Str.query, Lx.colon, Lx.a, Str.mutation,
       Lx.colon, Lx.a, Lx.rbrace>>,
     <<Str.extend, Str.schema, Lx.da, Lx.lbrace, Str.query, Lx.colon, Lx.a,
       Lx.rbrace>>,
     <<Str.union, Lx.a, Lx.equals, Lx.a, Lx.pipe, Lx.a>>,
     <<Str.directive, Lx.da, Lx.lparen, Lx.a, Lx.colon, Lx.a, Lx.rparen, Str.on,
       Lx.a, Lx.pipe, Lx.a>>}

JunkAlphabet ==
    Spaced({Lx.a, Lx.da, Lx.lbrace, Lx.rbrace, Lx.lparen, Lx.rparen, Lx.lbrack,
            Lx.rbrack, Lx.colon, <<Ch.dot>>})

\* the first k lexemes of d, for every k
Cuts(d) == {Words(SubSeq(d, 1, k)) : k \in 0..Len(d)}

CutDocs ==
    {c \o j : c \in UNION {Cuts(d) : d \in LoopDocs},
              j \in Texts(JunkAlphabet, MaxJunkLen)}

InitCut == InitWith(CutDocs, "new")

\* New or a turn of the definition loop can be taken: both are total, so this
\* is ENABLED <<CallNew \/ ParseDocumentStep>>_vars
StepReady == pc = "new" \/ (pc = "parse" /\ curToken.Type # "EOF")

\* The caller runs New and ParseDocument to their end: the return of
\* ParseDocument is weakly fair, and so are New and the turns of the loop,
\* whose weak fairness is written out with StepReady for its ENABLED.
FairSpecCut ==
    /\ InitCut
    /\ [][NextParse]_vars
    /\ WF_vars(ParseDocumentReturn)
    /\ ([]<>(~StepReady) \/ []<><<CallNew \/ ParseDocumentStep>>_vars)

\* the number of bytes of s that are in cs
CountOf(s, cs) == Cardinality({i \in 1..Len(s) : s[i] \in cs})

\* s opens more braces, parentheses and brackets than it closes
EndsInsideOpen(s) ==
    CountOf(s, {Ch.lbrace, Ch.lparen, Ch.lbrack})
        > CountOf(s, {Ch.rbrace, Ch.rparen, Ch.rbrack})

\* a turn of the definition loop returns an error, or appends one definition
\* and leaves the parser at a later token, after at least one call of the
\* lexer
DefinitionLoopProgress ==
    (pc = "parse" /\ curToken.Type # "EOF") =>
        \/ pc' = "done" /\ retErr' # NoErr /\ retDoc' = Nil
        \/ /\ pc' = "parse"
           /\ nlex' > nlex
           /\ curToken'.Start > curToken.Start
           /\ Len(doc') = Len(doc) + 1

\* C29: ParseDocument terminates: the parser reaches a result (a Document or
\* an error) on every document, every turn of the definition loop consumes
\* at least one token or returns an error, and a document that ends inside
\* an open brace, parenthesis or bracket gives an error and no Document.
C29_Terminates ==
    /\ <>(pc \in {"done", "failed"})
    /\ [][DefinitionLoopProgress]_vars
    /\ [](pc = "done" /\ EndsInsideOpen(input) => retErr # NoErr /\ retDoc = Nil)

\* query a ( $a : a $a : a ) @a @a { a ( a : [ a a     the document ends in
\* the list value, inside a bracket, a parenthesis and a brace: ParseDocument
\* has returned the error of the missing ]
C29_Witness ==
    /\ pc = "done"
    /\ \E d \in LoopDocs : d[1] = Str.query /\ input = Words(SubSeq(d, 1, 20))
    /\ EndsInsideOpen(input)
    /\ retErr = Errorf("expected %s, got %s", <<"RBRACK", "EOF">>)
    /\ retDoc = Nil


\* documents whose last token is no part of the grammar where it stands:
\* query a }     scalar :     fa
SyntaxErrorTexts ==
    {Words(<<Str.query, <<Ch.a>>, <<Ch.rbrace>>>>),
     Words(<<Str.scalar, <<Ch.colon>>>>),
     Words(<<<<Ch.f, Ch.a>>>>)}

\* a lone '.', which the lexer rejects
MalformedLexeme == Words(<<<<Ch.dot>>>>)

\* e is an error of the lexer, as it is or wrapped by New
IsLexical(e) ==
    e.kind = "LexError" \/ e.msg = "failed to initialize parser tokens: %w"

====
